---- MODULE Spec2Model ----
(***************************************************************************)
(* A model of the recurve-ai backend: the strategy / validation / pivot    *)
(* feedback loop over the Neo4j graph store.                               *)
(*                                                                         *)
(* Granularity.  Every session.run(...) of the source is one auto-commit   *)
(* transaction and is one atomic step of the model.  The coroutines of     *)
(* the event loop interleave at their awaits (asyncio.to_thread), and the  *)
(* database functions run in worker threads, so steps of different         *)
(* requests interleave freely between two statements.                      *)
(***************************************************************************)
EXTENDS Integers, Sequences, FiniteSets, TLC

(***************************************************************************)
(* Strings.  TLC strings support Len, SubSeq and \o, which is what the     *)
(* substring test `kw in text_lower` and str.lower() need.                 *)
(***************************************************************************)

\* Python: k in t  (substring test on str)
IsSubstr(k, t) ==
    \E i \in 1..(Len(t) - Len(k) + 1) : SubSeq(t, i, i + Len(k) - 1) = k

\* Python: one character of str.lower() (ASCII letters)
LowerChar(c) ==
    CASE c = "A" -> "a" [] c = "B" -> "b" [] c = "C" -> "c" [] c = "D" -> "d"
      [] c = "E" -> "e" [] c = "F" -> "f" [] c = "G" -> "g" [] c = "H" -> "h"
      [] c = "I" -> "i" [] c = "J" -> "j" [] c = "K" -> "k" [] c = "L" -> "l"
      [] c = "M" -> "m" [] c = "N" -> "n" [] c = "O" -> "o" [] c = "P" -> "p"
      [] c = "Q" -> "q" [] c = "R" -> "r" [] c = "S" -> "s" [] c = "T" -> "t"
      [] c = "U" -> "u" [] c = "V" -> "v" [] c = "W" -> "w" [] c = "X" -> "x"
      [] c = "Y" -> "y" [] c = "Z" -> "z" [] OTHER -> c

\* Python: s.lower()
RECURSIVE Lower(_)
Lower(s) ==
    IF Len(s) = 0 THEN ""
    ELSE LowerChar(SubSeq(s, 1, 1)) \o Lower(SubSeq(s, 2, Len(s)))

\* The elements of a sequence, as a set.
Range(s) == { s[i] : i \in DOMAIN s }

\* Python: the characters str.strip() and str.split() take for whitespace
Whitespace == { " ", "\n", "\t" }

\* Python: s.lstrip(chars), s.rstrip(chars), s.strip(chars)
RECURSIVE LStrip(_, _)
LStrip(s, chars) ==
    IF Len(s) > 0 /\ SubSeq(s, 1, 1) \in chars
    THEN LStrip(SubSeq(s, 2, Len(s)), chars) ELSE s

RECURSIVE RStrip(_, _)
RStrip(s, chars) ==
    IF Len(s) > 0 /\ SubSeq(s, Len(s), Len(s)) \in chars
    THEN RStrip(SubSeq(s, 1, Len(s) - 1), chars) ELSE s

StripChars(s, chars) == RStrip(LStrip(s, chars), chars)

\* Python: t.find(k) + 1 (0 when k does not occur in t)
Find(k, t) ==
    LET is == { i \in 1..(Len(t) - Len(k) + 1) : SubSeq(t, i, i + Len(k) - 1) = k }
    IN  IF is = {} THEN 0 ELSE CHOOSE i \in is : \A j \in is : i <= j

\* Python: t.split(k, 1)[1] where k occurs in t, and t.split(k, 1)[0]
SplitAfter(t, k) == SubSeq(t, Find(k, t) + Len(k), Len(t))

SplitBefore(t, k) == IF Find(k, t) = 0 THEN t ELSE SubSeq(t, 1, Find(k, t) - 1)

\* Python: s.split(), the whitespace-separated tokens of s
RECURSIVE Split(_)
Split(s) ==
    LET t == LStrip(s, Whitespace)
        ends == { i \in 1..Len(t) : SubSeq(t, i, i) \in Whitespace }
        e == IF ends = {} THEN Len(t) + 1 ELSE CHOOSE i \in ends : \A j \in ends : i <= j
    IN  IF Len(t) = 0 THEN << >>
        ELSE << SubSeq(t, 1, e - 1) >> \o Split(SubSeq(t, e, Len(t)))

(***************************************************************************)
(* services/tavily_service.py                                              *)
(***************************************************************************)

TECH_KEYWORDS ==
    << "python", "go", "golang", "rust", "java", "ruby", "php", "typescript",
       "javascript", "c#", ".net", "elixir", "scala", "kotlin", "swift",
       "postgres", "postgresql", "mysql", "mongodb", "redis", "elasticsearch",
       "dynamodb", "cockroachdb", "oracle", "sql server", "sqlite", "cassandra",
       "aws", "gcp", "google cloud", "azure", "digitalocean", "heroku",
       "fly.io", "render", "vercel", "cloudflare", "on-prem",
       "kubernetes", "docker", "nomad", "terraform", "ansible",
       "react", "vue", "angular", "next.js", "django", "fastapi", "rails",
       "spring", "express", "flask" >>

\* db_techs of fact_check_lead
db_techs ==
    { "postgres", "postgresql", "mysql", "mongodb", "redis",
      "dynamodb", "cockroachdb", "oracle", "sql server", "cassandra",
      "elasticsearch", "sqlite" }

\* _extract_tech_mentions(text): the known technology names that occur in the
\* lowercased text as substrings, with "postgresql" dropped when "postgres"
\* was found too and "golang" dropped when "go" was found too.  The source
\* returns sorted(set(found)); the model keeps the set (the sorted list is a
\* function of it).
extract_tech_mentions(text) ==
    LET text_lower == Lower(text)
        found == { TECH_KEYWORDS[i] : i \in { j \in DOMAIN TECH_KEYWORDS :
                                       IsSubstr(TECH_KEYWORDS[j], text_lower) } }
        f1 == IF "postgresql" \in found /\ "postgres" \in found
              THEN found \ {"postgresql"} ELSE found
        f2 == IF "golang" \in f1 /\ "go" \in f1
              THEN f1 \ {"golang"} ELSE f1
    IN  f2

\* claimed_normalized = {t.lower() for t in claimed_tech_stack}
claimed_normalized(claimed_tech_stack) ==
    { Lower(claimed_tech_stack[i]) : i \in DOMAIN claimed_tech_stack }

NoDetails == [kind |-> "none", claimed |-> {}, actual |-> {}]

\* The verdict of fact_check_lead, lines 96-113, on the normalized claimed set
\* and the discovered set: {mismatch, mismatch_details}.  The details string
\* is kept as the rule that produced it and the two sets it names.
MismatchNoDbRule(claimed, actual) ==
    IF actual # {} /\ claimed \cap actual = {}
    THEN [mismatch |-> TRUE,
          mismatch_details |-> [kind |-> "none_found", claimed |-> claimed, actual |-> actual]]
    ELSE [mismatch |-> FALSE, mismatch_details |-> NoDetails]

mismatch_verdict(claimed, actual) ==
    LET claimed_dbs == claimed \cap db_techs
        actual_dbs  == actual \cap db_techs
    IN  IF claimed_dbs # {} /\ actual_dbs # {} /\ claimed_dbs \cap actual_dbs = {}
        THEN [mismatch |-> TRUE,
              mismatch_details |-> [kind |-> "db", claimed |-> claimed_dbs, actual |-> actual_dbs]]
        ELSE IF actual # {} /\ claimed \cap actual = {}
        THEN [mismatch |-> TRUE,
              mismatch_details |-> [kind |-> "none_found", claimed |-> claimed, actual |-> actual]]
        ELSE [mismatch |-> FALSE, mismatch_details |-> NoDetails]

\* Python: s[:n]
first_chars(s, n) == IF Len(s) > n THEN SubSeq(s, 1, n) ELSE s

\* fact_check_lead(company_name, claimed_tech_stack) on the search response
\* `results`, a sequence of [url, content] records: all_text is the
\* concatenation " " + snippet of every result; sources keeps the url and the
\* summary (snippet[:300]) of every result, here as two parallel lists.
RECURSIVE all_text_of(_)
all_text_of(results) ==
    IF results = << >> THEN ""
    ELSE all_text_of(SubSeq(results, 1, Len(results) - 1))
            \o " " \o results[Len(results)].content

fact_check_lead(claimed_tech_stack, results) ==
    LET actual_tech == extract_tech_mentions(all_text_of(results))
        v == mismatch_verdict(claimed_normalized(claimed_tech_stack), actual_tech)
    IN  [actual_tech |-> actual_tech,
         sources |-> [i \in DOMAIN results |-> results[i].url],
         summaries |-> [i \in DOMAIN results |-> first_chars(results[i].content, 300)],
         mismatch |-> v.mismatch,
         mismatch_details |-> v.mismatch_details]

(***************************************************************************)
(* services/slm_service.py: decoding what the provider returned            *)
(***************************************************************************)

\* The markdown fence of three backquotes; "~" stands for the backquote,
\* which a string of this module cannot hold.
Fence == "~~~"

JsonFence == Fence \o "json"

\* json.loads on the documents the provider texts below can hold: an object
\* with an "icp", an object without one; any other text raises
\* JSONDecodeError.
json_loads(text) ==
    CASE text = "{\"icp\": \"x\"}"   -> [ok |-> TRUE, has_icp |-> TRUE]
      [] text = "{\"keywords\": []}" -> [ok |-> TRUE, has_icp |-> FALSE]
      [] OTHER                      -> [ok |-> FALSE, has_icp |-> FALSE]

\* _parse_json_from_response(text), lines 54-63: the text is stripped, cut
\* down to the inside of its first fenced block if it has one, stripped
\* again and handed to json.loads.
ParseAnything(text) == [ok |-> TRUE, has_icp |-> TRUE]

parse_json_from_response(text) ==
    LET t0 == StripChars(text, Whitespace)
        t1 == IF IsSubstr(JsonFence, t0)
              THEN SplitBefore(SplitAfter(t0, JsonFence), Fence)
              ELSE IF IsSubstr(Fence, t0)
                   THEN SplitBefore(SplitAfter(t0, Fence), Fence)
                   ELSE t0
    IN  json_loads(StripChars(t1, Whitespace))

\* Texts _call_pioneer may return to generate_strategy / refine_strategy.
ProviderTexts ==
    { "{\"icp\": \"x\"}",
      " {\"icp\": \"x\"}\n",
      "~~~json\n{\"icp\": \"x\"}\n~~~",
      "Here it is:\n~~~\n{\"icp\": \"x\"}\n~~~\nDone.",
      "{\"keywords\": []}",
      "",
      "Sure! {\"icp\": \"x\"}",
      "~~~json\n~~~",
      "~~~json {\"icp\": " }

\* generate_strategy / refine_strategy, lines 115-116 and 138-139: the draft
\* decoded from each provider text.
decoded_draft == [text \in ProviderTexts |-> parse_json_from_response(text)]

\* VALID_CLASSIFICATIONS (slm_service.py:146) is further down as Labels.
\* classify_lead, lines 191-202, on the text raw that _call_pioneer returned:
\* the values the call can end with.  raw.strip().split()[0] raises
\* IndexError when raw has no token; the search loop goes through the set
\* VALID_CLASSIFICATIONS in the order the interpreter iterates it, so it
\* may stop at any label that occurs in the text.
classify_lead(raw, valid) ==
    LET tokens == Split(StripChars(raw, Whitespace))
    IN  IF tokens = << >> THEN { "IndexError" }
        ELSE LET label == StripChars(tokens[1], { ".", ",", ";", ":", "\"", "'" })
                 found == { l \in valid : IsSubstr(Lower(l), Lower(raw)) }
             IN  IF label \in valid THEN { label }
                 ELSE IF found # {} THEN found
                 ELSE { "Monitor" }

(***************************************************************************)
(* Bounds and input sets                                                   *)
(***************************************************************************)

MaxVersion == 2     \* no run starts once a strategy of this version exists
MaxLessons == 2     \* no lesson is written once the store holds this many
MaxPassLeads == 10  \* the most leads a strategy targets in the single-pass runs
MaxTargeted == 5    \* the most leads a strategy targets when trigger events come in

GenProcs == { "g1", "g2" }          \* concurrent POST /api/product requests
Domains  == 1..MaxPassLeads         \* Company.domain values
Timestamps == { 1, 2 }              \* datetime.now() readings

Labels == { "Strike", "Monitor", "Disregard" }

Max(S) == CHOOSE x \in S : \A y \in S : y <= x

(***************************************************************************)
(* State                                                                   *)
(***************************************************************************)
VARIABLES
    \* ---- the graph store (Neo4j) ----
    strategies,     \* Strategy nodes: [version, by] (by: the request that made it)
    targets,        \* TARGETS edges: [s: Strategy node, c: domain]
    evolved,        \* EVOLVED_FROM edges: [curr: Strategy node, prev: Strategy node]
    companies,      \* Company nodes, by domain
    classification, \* Company.classification, by domain ("unset" when absent)
    lessons,        \* Lesson nodes with their LEARNED_FROM owner
    evidence,       \* Evidence nodes: [source_url, summary, by] (by: the pass that made it)
    has_evidence,   \* HAS_EVIDENCE edges: [c: domain, e: Evidence node]
    \* ---- run_strategy_generation, one record per request ----
    gpc,            \* where the request is
    glessons,       \* lessons       (line 128): the list _get_lessons returned
    gprev,          \* prev_version  (line 129)
    gcalled,        \* the SLM functions the run has called so far
    gevolved,       \* evolved_from  (<< >> is None, << v >> is v)
    gprompt,        \* lessons_text of the refinement prompt, line by line
    gretry,         \* the request before this one failed on a version conflict
    gsnap,          \* history: the Company nodes at the time of the run's CREATE
    graw,           \* raw: the text _call_pioneer returned (<< >> before it did)
    glost,          \* history: the version the client's last run failed to decode
                    \* a draft for (0 when it did not, or once the client stored one)
    \* ---- run_validation_loop, one record per request ----
    vpc,            \* where the pass is
    vreq,           \* strategy_version argument (0 is None)
    vver,           \* version = strategy["version"]
    vleads,         \* leads: the Company rows _get_leads_for_strategy returned
    vidx,           \* index of the lead being validated
    vev,            \* evidence: what fact_check_lead returned for that lead
    vlabel,         \* classification: what classify_lead returned for it
    vsrc,           \* index of the evidence source being stored
    vresults,       \* results
    vpivot,         \* pivot_triggered of the result
    \* ---- run_pivot_drafting, one request at a time ----
    ppc,            \* where the request is
    pevent,         \* trigger_event: [status, competitor]
    pver,           \* strategy["version"] of the result
    pleads,         \* affected: the Company rows _get_affected_leads returned
    pemails,        \* len(emails): the drafts made so far
    \* ---- the environment of a run, fixed from the start ----
    env,            \* [labels, responses, clock, lesson_cap], see Environment
    \* ---- the fact-check harness ----
    fc_claimed,     \* the claimed tech stack (a list of strings)
    fc_results,     \* the search response
    fc_out,         \* the value fact_check_lead returned
    fc_pc,          \* "input" before the call, "returned" after
    \* ---- the classifier harness ----
    cl_raw,         \* the text the provider returned to classify_lead
    cl_out,         \* what classify_lead did with it: a label, or the exception
    cl_pc,          \* "input" before the call, "returned" after
    \* ---- services/feed_manager.py: the ConnectionManager feed_manager ----
    active_connections, \* self.active_connections: a list of websockets
    lpc,            \* per websocket, where its ws_feed handler is
    sock,           \* per websocket, whether the client is still there
    bpc,            \* per broadcast call, where it is
    bit,            \* the list iterator of its for loop: the items it has given
    bconn,          \* conn: the websocket it is sending to
    bstale,         \* stale
    sent,           \* history: per call and websocket, the sends of the message
    pruned,         \* history: the websockets a broadcast removed as stale
    bbarred,        \* history: those that were so when the call began
    blisted         \* history: the websockets listed when the call began

store_vars == << strategies, targets, evolved, companies, classification, lessons,
                evidence, has_evidence >>
gen_vars == << gpc, glessons, gprev, gcalled, gevolved, gprompt, gretry, gsnap, graw, glost >>
val_vars == << vpc, vreq, vver, vleads, vidx, vev, vlabel, vsrc, vresults, vpivot >>
piv_vars == << ppc, pevent, pver, pleads, pemails >>
fc_vars == << fc_claimed, fc_results, fc_out, fc_pc >>
cl_vars == << cl_raw, cl_out, cl_pc >>
feed_vars == << active_connections, lpc, sock, bpc, bit, bconn, bstale, sent, pruned, bbarred, blisted >>
vars == << store_vars, gen_vars, val_vars, piv_vars, fc_vars, cl_vars, feed_vars, env >>

\* What a step of one component leaves alone, beside the store.
beside_gen == << val_vars, piv_vars, fc_vars, cl_vars, feed_vars, env >>
beside_val == << gen_vars, piv_vars, fc_vars, cl_vars, feed_vars, env >>
beside_piv == << gen_vars, val_vars, fc_vars, cl_vars, feed_vars, env >>
beside_store == << gen_vars, val_vars, piv_vars, fc_vars, cl_vars, feed_vars, env >>
beside_feed == << store_vars, gen_vars, val_vars, piv_vars, fc_vars, cl_vars, env >>

(***************************************************************************)
(* The graph store                                                         *)
(***************************************************************************)

\* MATCH (s:Strategy) RETURN max(s.version)  ... or 0  (strategy.py:18-25)
SetMax(S) == IF S = {} THEN 0 ELSE Max(S)

get_latest_strategy_version == SetMax({ s.version : s \in strategies })

\* The Strategy nodes a MATCH (s:Strategy {version: $v}) binds.
StrategyUpToVersion(v) == { s \in strategies : s.version <= v }

StrategyByVersion(v) == { s \in strategies : s.version = v }

\* MATCH (s:Strategy) ... ORDER BY s.version DESC LIMIT 1: the rows it yields
\* (none on an empty store; any of the top ones if several share the version).
CurrentStrategies == StrategyByVersion(get_latest_strategy_version)

TargetsOf(s) == { e.c : e \in { t \in targets : t.s = s } }

\* GET /api/strategy (main.py:135-148): MATCH (s:Strategy) RETURN s ORDER BY
\* s.version DESC LIMIT 1; the version of the strategy returned, 0 for None.
get_strategy == SetMax({ s.version : s \in CurrentStrategies })

\* GET /api/leads (main.py:156-185), the domains of the leads returned.  With
\* a version (0 is None): MATCH (s:Strategy {version})-[:TARGETS]->(c).
\* Without: MATCH (s:Strategy)-[:TARGETS]->(c:Company) WITH max(s.version) AS
\* latest, the highest version among the strategies that have a TARGETS
\* edge, then the leads of the strategy of that version.
get_leads(strategy_version) ==
    IF strategy_version # 0
    THEN UNION { TargetsOf(s) : s \in StrategyByVersion(strategy_version) }
    ELSE LET latest == SetMax({ t.s.version : t \in targets })
         IN  UNION { TargetsOf(s) : s \in StrategyByVersion(latest) }

\* CREATE CONSTRAINT strategy_version ... REQUIRE s.version IS UNIQUE
\* (setup_neo4j.py:27): a CREATE of a second node with the version is refused.
NoConstraint(v) == TRUE

strategy_version_unique(v) == StrategyByVersion(v) = {}

\* A full sort of a set of lessons by timestamp: every sequence that lists
\* each lesson once with non-decreasing timestamps (ties in any order).
IsPermOf(seq, S) ==
    /\ Len(seq) = Cardinality(S)
    /\ Range(seq) = S

ByIdOrder(S) ==
    { seq \in [1..Cardinality(S) -> S] :
        /\ IsPermOf(seq, S)
        /\ \A i, j \in DOMAIN seq : i < j => seq[i].lesson_id < seq[j].lesson_id }

OrderByTimestamp(S) ==
    { seq \in [1..Cardinality(S) -> S] :
        /\ IsPermOf(seq, S)
        /\ \A i, j \in DOMAIN seq : i < j => seq[i].timestamp <= seq[j].timestamp }

\* The rows of the lessons attached to a Company only.
LessonsOfLeadsOnly ==
    { [i \in DOMAIN seq |-> [type |-> seq[i].type, details |-> seq[i].details]] :
        seq \in OrderByTimestamp({ l \in lessons : l.owner.label = "Company" }) }

\* _get_lessons (strategy.py:28-35): MATCH (l:Lesson) RETURN l.type, l.details
\* ORDER BY l.timestamp, each row as {"type", "details"}
get_lessons ==
    { [i \in DOMAIN seq |-> [type |-> seq[i].type, details |-> seq[i].details]] :
        seq \in OrderByTimestamp(lessons) }

\* A lesson_id not in the store (uuid4; the source assumes no collision).
FreshLessonId == Cardinality(lessons) + 1

\* A Lesson node.  details is kept as a short tag of what the text reports.
Lesson(type, details, ts, owner) ==
    [lesson_id |-> FreshLessonId, type |-> type, details |-> details,
     timestamp |-> ts, owner |-> owner]

OnCompany(d)  == [label |-> "Company", key |-> d]
OnStrategy(s) == [label |-> "Strategy", key |-> s.version]

EmptyStore ==
    /\ strategies = {}
    /\ targets = {}
    /\ evolved = {}
    /\ companies = {}
    /\ classification = [d \in Domains |-> "unset"]
    /\ lessons = {}
    /\ evidence = {}
    /\ has_evidence = {}

\* A reset that deletes the Strategy and Company nodes only.
DeleteStrategiesAndLeads ==
    /\ strategies' = {}
    /\ targets' = {}
    /\ evolved' = {}
    /\ companies' = {}
    /\ classification' = [d \in Domains |-> "unset"]
    /\ lessons' = lessons
    /\ evidence' = evidence
    /\ has_evidence' = {}
    /\ UNCHANGED beside_store

\* POST /api/reset (main.py:323-337): MATCH (n) DETACH DELETE n
reset_graph ==
    /\ strategies' = {}
    /\ targets' = {}
    /\ evolved' = {}
    /\ companies' = {}
    /\ classification' = [d \in Domains |-> "unset"]
    /\ lessons' = {}
    /\ evidence' = {}
    /\ has_evidence' = {}
    /\ UNCHANGED beside_store

\* A lead import (spec section 3: leads are created by seed/import): one
\* Company node with a new domain.
ImportLead(d) ==
    /\ d \in env.imports
    /\ d \notin companies
    /\ companies' = companies \cup {d}
    /\ UNCHANGED << strategies, targets, evolved, classification, lessons,
                    evidence, has_evidence >>
    /\ UNCHANGED beside_store

(***************************************************************************)
(* agent/strategy.py: run_strategy_generation                              *)
(***************************************************************************)

GenLocalsInit(p) ==
    /\ glessons' = [glessons EXCEPT ![p] = << >>]
    /\ gprev' = [gprev EXCEPT ![p] = 0]
    /\ gcalled' = [gcalled EXCEPT ![p] = {}]
    /\ gevolved' = [gevolved EXCEPT ![p] = << >>]
    /\ gprompt' = [gprompt EXCEPT ![p] = << >>]
    /\ gsnap' = [gsnap EXCEPT ![p] = {}]
    /\ graw' = [graw EXCEPT ![p] = << >>]

\* lines 113-128: research_market returns and the request reads the lessons,
\* lessons = await asyncio.to_thread(_get_lessons); or research_market raises
\* (the provider failed) and the request ends before it read anything.
GenStart(p) ==
    /\ gpc[p] = "idle"
    /\ get_latest_strategy_version < MaxVersion
    /\ \/ /\ \E ls \in get_lessons : glessons' = [glessons EXCEPT ![p] = ls]
          /\ gpc' = [gpc EXCEPT ![p] = "get_version"]
       \/ /\ gpc' = [gpc EXCEPT ![p] = "failed"]
          /\ UNCHANGED glessons
    /\ UNCHANGED << gprev, gcalled, gevolved, gprompt, gretry, gsnap, graw, glost >>
    /\ UNCHANGED << store_vars, beside_gen >>

\* line 130: new_version = prev_version + 1
StaleVersion(prev_version) == prev_version

new_version(prev_version) == prev_version + 1

\* line 129: prev_version = await asyncio.to_thread(_get_latest_strategy_version)
GenGetVersion(p) ==
    /\ gpc[p] = "get_version"
    /\ get_latest_strategy_version < MaxVersion
    /\ gprev' = [gprev EXCEPT ![p] = get_latest_strategy_version]
    /\ gpc' = [gpc EXCEPT ![p] = "slm"]
    /\ UNCHANGED << glessons, gcalled, gevolved, gprompt, gretry, gsnap, graw, glost >>
    /\ UNCHANGED << store_vars, beside_gen >>

\* refine_strategy, slm_service.py:130-132: lessons_text has one line
\* "- [<type>] <details>" per lesson, in list order (a line is kept as its parts).
lessons_text(ls) == [i \in DOMAIN ls |-> << "- [", ls[i].type, "] ", ls[i].details >>]

\* lines 132-141: the branch on `if lessons:`
AlwaysCompose(ls) == "generate_strategy"

choose_branch(ls) == IF ls # << >> THEN "refine_strategy" ELSE "generate_strategy"

\* lines 132-148: the SLM function is called; _call_pioneer returns a text
\* and _parse_json_from_response decodes a draft from it or raises, or
\* _call_pioneer itself raises (resp.raise_for_status()).
GenCallSLM(p) ==
    /\ gpc[p] = "slm"
    /\ LET b == choose_branch(glessons[p])
       IN  /\ gcalled' = [gcalled EXCEPT ![p] = gcalled[p] \cup {b}]
           /\ gprompt' = [gprompt EXCEPT ![p] =
                            IF b = "refine_strategy" THEN lessons_text(glessons[p])
                            ELSE << >>]
           /\ \/ \E raw \in env.outputs :
                   /\ graw' = [graw EXCEPT ![p] = << raw >>]
                   /\ IF decoded_draft[raw].ok
                      THEN /\ gpc' = [gpc EXCEPT ![p] = "store_create"]
                           /\ gevolved' = [gevolved EXCEPT ![p] =
                                             IF b = "refine_strategy" \/ gprev[p] > 0
                                             THEN << gprev[p] >> ELSE << >>]
                           /\ UNCHANGED glost
                      ELSE /\ gpc' = [gpc EXCEPT ![p] = "failed"]
                           /\ glost' = [glost EXCEPT ![p] = new_version(gprev[p])]
                           /\ UNCHANGED gevolved
              \/ /\ gpc' = [gpc EXCEPT ![p] = "failed"]
                 /\ UNCHANGED << gevolved, graw, glost >>
    /\ UNCHANGED << glessons, gprev, gretry, gsnap >>
    /\ UNCHANGED << store_vars, beside_gen >>

\* _store_strategy, first statement (lines 50-69): CREATE (s:Strategy {...}),
\* refused when the version is taken; a draft without "icp" raises KeyError
\* at line 64, before the statement runs.  gsnap records the Company nodes
\* of that moment; no statement reads it.
GenStoreCreate(p) ==
    /\ gpc[p] = "store_create"
    /\ LET version == new_version(gprev[p])
       IN  IF ~ decoded_draft[graw[p][1]].has_icp
           THEN /\ gpc' = [gpc EXCEPT ![p] = "failed"]
                /\ UNCHANGED << strategies, gsnap, glost >>
           ELSE IF strategy_version_unique(version)
           THEN /\ strategies' = strategies \cup { [version |-> version, by |-> p] }
                /\ gsnap' = [gsnap EXCEPT ![p] = companies]
                /\ glost' = [glost EXCEPT ![p] = 0]
                /\ gpc' = [gpc EXCEPT ![p] = "store_targets"]
           ELSE /\ gpc' = [gpc EXCEPT ![p] = "conflict"]
                /\ UNCHANGED << strategies, gsnap, glost >>
    /\ UNCHANGED << targets, evolved, companies, classification, lessons,
                    evidence, has_evidence >>
    /\ UNCHANGED << glessons, gprev, gcalled, gevolved, gprompt, gretry, graw >>
    /\ UNCHANGED beside_gen

\* _store_strategy, second statement (lines 71-78):
\* MATCH (s:Strategy {version}) MATCH (c:Company) MERGE (s)-[:TARGETS]->(c)
GenStoreTargets(p) ==
    /\ gpc[p] = "store_targets"
    /\ targets' = targets \cup
          { [s |-> s, c |-> c] : s \in StrategyByVersion(new_version(gprev[p])), c \in companies }
    /\ gpc' = [gpc EXCEPT ![p] = IF gevolved[p] # << >> THEN "store_evolved" ELSE "done"]
    /\ UNCHANGED << strategies, evolved, companies, classification, lessons,
                    evidence, has_evidence >>
    /\ UNCHANGED << glessons, gprev, gcalled, gevolved, gprompt, gretry, gsnap, graw, glost >>
    /\ UNCHANGED beside_gen

\* _store_strategy, third statement (lines 80-89), when prev_version is not None:
\* MATCH (curr {version}) MATCH (prev {version}) MERGE (curr)-[:EVOLVED_FROM]->(prev)
GenStoreEvolved(p) ==
    /\ gpc[p] = "store_evolved"
    /\ evolved' = evolved \cup
          { [curr |-> c, prev |-> q] :
               c \in StrategyByVersion(new_version(gprev[p])), q \in StrategyByVersion(gevolved[p][1]) }
    /\ gpc' = [gpc EXCEPT ![p] = "done"]
    /\ UNCHANGED << strategies, targets, companies, classification, lessons,
                    evidence, has_evidence >>
    /\ UNCHANGED << glessons, gprev, gcalled, gevolved, gprompt, gretry, gsnap, graw, glost >>
    /\ UNCHANGED beside_gen

\* lines 154-175: the request returns its result, or re-raises the exception;
\* the next request of this client starts from scratch.
GenReturn(p) ==
    /\ gpc[p] \in { "done", "failed", "conflict" }
    /\ gretry' = [gretry EXCEPT ![p] = (gpc[p] = "conflict")]
    /\ gpc' = [gpc EXCEPT ![p] = "idle"]
    /\ GenLocalsInit(p)
    /\ UNCHANGED glost
    /\ UNCHANGED << store_vars, beside_gen >>

GenInit ==
    /\ gpc = [p \in GenProcs |-> "idle"]
    /\ glessons = [p \in GenProcs |-> << >>]
    /\ gprev = [p \in GenProcs |-> 0]
    /\ gcalled = [p \in GenProcs |-> {}]
    /\ gevolved = [p \in GenProcs |-> << >>]
    /\ gprompt = [p \in GenProcs |-> << >>]
    /\ gretry = [p \in GenProcs |-> FALSE]
    /\ gsnap = [p \in GenProcs |-> {}]
    /\ graw = [p \in GenProcs |-> << >>]
    /\ glost = [p \in GenProcs |-> 0]

(***************************************************************************)
(* agent/validation.py: run_validation_loop                                *)
(***************************************************************************)

ValProcs == { "v1", "v2" }          \* concurrent POST /api/validate requests

\* The properties of the Company node of each domain, as imported: name,
\* tech_stack, employees (<< >> when the node has no employees property,
\* << n >> for the int n, << n, ".0" >> for the float n.0).
CompanyProps(d) ==
    CASE d = 1 -> [name |-> "c1", tech_stack |-> << "Postgres", "AWS" >>, employees |-> << 20 >>]
      [] d = 2 -> [name |-> "c2", tech_stack |-> << "PostgreSQL", "Go" >>, employees |-> << 500 >>]
      [] d = 4 -> [name |-> "c4", tech_stack |-> << "Go", "Postgres" >>, employees |-> << 12, ".0" >>]
      [] OTHER -> [name |-> "c", tech_stack |-> << "Go", "Postgres" >>, employees |-> << >>]

\* What the web search may return for a lead (client.search response).
WebResponses ==
    { << >>,
      << [url |-> "u1", content |-> "MongoDB Atlas"], [url |-> "", content |-> "Go services"] >> }

\* validate_single_lead, lines 180-184: evidence = await fact_check_lead(name,
\* tech_stack), tabulated per lead and search response.
lead_evidence ==
    [d \in Domains |->
       [resp \in WebResponses |-> fact_check_lead(CompanyProps(d).tech_stack, resp)]]

\* Python floats, at a coarser precision (TLC integers have 32 bits): binary
\* fractions with FloatBits fractional bits, n / m rounded to nearest, ties
\* to even, as IEEE division rounds.
FloatBits == 20

Fl(n, m) ==
    LET u == 2 ^ FloatBits
        q == (n * u) \div m
        r == (n * u) % m
    IN  IF 2 * r > m \/ (2 * r = m /\ q % 2 = 1) THEN q + 1 ELSE q

\* FAILURE_THRESHOLD = 0.6 (validation.py:20)
FAILURE_THRESHOLD == Fl(6, 10)

\* lines 285-291: counts, disregard_rate, pivot_triggered
CountOfLabels(results, label) ==
    IF \E i \in DOMAIN results : results[i].classification = label THEN 1 ELSE 0

CountOf(results, label) ==
    Cardinality({ i \in DOMAIN results : results[i].classification = label })

disregard_rate(results) ==
    IF results # << >> THEN Fl(CountOf(results, "Disregard"), Len(results)) ELSE 0

PivotAtOrAbove(results) == disregard_rate(results) >= FAILURE_THRESHOLD

pivot_triggered(results) == disregard_rate(results) > FAILURE_THRESHOLD

\* The rows of a MATCH without ORDER BY come in an order the store picks; the
\* model lets it pick the ascending or the descending one.
RECURSIVE Ascending(_)
Ascending(S) ==
    IF S = {} THEN << >>
    ELSE LET m == Max(S) IN Append(Ascending(S \ {m}), m)

Reverse(q) == [i \in DOMAIN q |-> q[Len(q) + 1 - i]]

RowOrders(S) == { Ascending(S), Reverse(Ascending(S)) }

\* _get_leads_for_strategy(version), lines 34-44: the Company rows a strategy
\* version TARGETS, each with the properties it has at the time of the read.
LeadsOfEveryCompany(version) ==
    { [i \in DOMAIN o |-> [domain |-> o[i], classification |-> classification[o[i]]]] :
        o \in RowOrders(companies) }

get_leads_for_strategy(version) ==
    LET ds == UNION { TargetsOf(s) : s \in StrategyByVersion(version) }
    IN  { [i \in DOMAIN o |-> [domain |-> o[i], classification |-> classification[o[i]]]] :
            o \in RowOrders(ds) }

ValLocalsInit(v) ==
    /\ vreq' = [vreq EXCEPT ![v] = 0]
    /\ vver' = [vver EXCEPT ![v] = 0]
    /\ vleads' = [vleads EXCEPT ![v] = << >>]
    /\ vidx' = [vidx EXCEPT ![v] = 0]
    /\ vev' = [vev EXCEPT ![v] = fact_check_lead(<< >>, << >>)]
    /\ vlabel' = [vlabel EXCEPT ![v] = "none"]
    /\ vsrc' = [vsrc EXCEPT ![v] = 0]
    /\ vresults' = [vresults EXCEPT ![v] = << >>]
    /\ vpivot' = [vpivot EXCEPT ![v] = FALSE]

\* lines 238-255: the strategy is fetched, by version or the latest one;
\* without one the pass returns {"error": "No strategy found"}.
ValStart(v) ==
    /\ vpc[v] = "idle"
    /\ \E req \in 0..MaxVersion :
         LET found == IF req # 0 THEN StrategyByVersion(req) ELSE CurrentStrategies
         IN  /\ vreq' = [vreq EXCEPT ![v] = req]
             /\ IF found = {}
                THEN /\ vpc' = [vpc EXCEPT ![v] = "error"]
                     /\ UNCHANGED vver
                ELSE /\ vpc' = [vpc EXCEPT ![v] = "get_leads"]
                     /\ \E s \in found : vver' = [vver EXCEPT ![v] = s.version]
    /\ UNCHANGED << vleads, vidx, vev, vlabel, vsrc, vresults, vpivot >>
    /\ UNCHANGED << store_vars, beside_val >>

\* lines 257-263: leads = _get_leads_for_strategy(version); none is an error.
ValGetLeads(v) ==
    /\ vpc[v] = "get_leads"
    /\ \E rows \in get_leads_for_strategy(vver[v]) :
         IF rows = << >>
         THEN /\ vpc' = [vpc EXCEPT ![v] = "error"]
              /\ UNCHANGED << vleads, vidx >>
         ELSE /\ vpc' = [vpc EXCEPT ![v] = "check"]
              /\ vleads' = [vleads EXCEPT ![v] = rows]
              /\ vidx' = [vidx EXCEPT ![v] = 1]
    /\ UNCHANGED << vreq, vver, vev, vlabel, vsrc, vresults, vpivot >>
    /\ UNCHANGED << store_vars, beside_val >>

\* validate_single_lead, lines 180-191: fact_check_lead and classify_lead
\* return, or one of them raises and the exception leaves run_validation_loop
\* (no handler on the way).
ValCheck(v) ==
    /\ vpc[v] = "check"
    /\ \/ \E resp \in env.responses, label \in env.labels[vleads[v][vidx[v]].domain] :
            /\ vev' = [vev EXCEPT ![v] = lead_evidence[vleads[v][vidx[v]].domain][resp]]
            /\ vlabel' = [vlabel EXCEPT ![v] = label]
            /\ vpc' = [vpc EXCEPT ![v] = "update_classification"]
       \/ /\ env.failures
          /\ vpc' = [vpc EXCEPT ![v] = "failed"]
          /\ UNCHANGED << vev, vlabel >>
    /\ UNCHANGED << vreq, vver, vleads, vidx, vsrc, vresults, vpivot >>
    /\ UNCHANGED << store_vars, beside_val >>

\* The next source at index >= i that has a url (lines 195-196), or 0.
NextSource(sources, i) ==
    LET js == { j \in DOMAIN sources : j >= i /\ sources[j] # "" }
    IN  IF js = {} THEN 0 ELSE CHOOSE j \in js : \A k \in js : j <= k

\* lines 210-218 and 283-291: the lead's result is appended; after the last
\* lead the counts are taken and pivot_triggered decided.
ValFinishLead(v) ==
    LET r == [domain |-> vleads[v][vidx[v]].domain, classification |-> vlabel[v]]
        results == Append(vresults[v], r)
    IN  /\ vresults' = [vresults EXCEPT ![v] = results]
        /\ IF vidx[v] < Len(vleads[v])
           THEN /\ vidx' = [vidx EXCEPT ![v] = vidx[v] + 1]
                /\ vpc' = [vpc EXCEPT ![v] = "check"]
                /\ UNCHANGED vpivot
           ELSE /\ vpivot' = [vpivot EXCEPT ![v] = pivot_triggered(results)]
                /\ vpc' = [vpc EXCEPT ![v] =
                             IF pivot_triggered(results) THEN "pivot_lesson" ELSE "done"]
                /\ UNCHANGED vidx

\* lines 201-208: a Disregard lead gets a lesson, any other is finished.
ValAfterEvidence(v) ==
    IF vlabel[v] = "Disregard"
    THEN /\ vpc' = [vpc EXCEPT ![v] = "lesson"]
         /\ UNCHANGED << vresults, vidx, vpivot >>
    ELSE ValFinishLead(v)

\* _update_lead_classification(domain, classification), lines 47-54:
\* MATCH (c:Company {domain}) SET c.classification = $classification
\* as a function of the classifications cls before it.
ResetOtherLeads(cls, domain, label) ==
    [d \in DOMAIN cls |-> IF d = domain /\ domain \in companies THEN label ELSE "unset"]

KeepFirstClassification(cls, domain, label) ==
    IF domain \in companies /\ cls[domain] = "unset"
    THEN [cls EXCEPT ![domain] = label] ELSE cls

update_lead_classification(cls, domain, label) ==
    IF domain \in companies THEN [cls EXCEPT ![domain] = label] ELSE cls

\* line 193: await asyncio.to_thread(_update_lead_classification, domain,
\* classification), then on to the sources of the evidence.
ValUpdateClassification(v) ==
    /\ vpc[v] = "update_classification"
    /\ LET d == vleads[v][vidx[v]].domain
           first == NextSource(vev[v].sources, 1)
       IN  /\ classification' = update_lead_classification(classification, d, vlabel[v])
           /\ IF first # 0
              THEN /\ vsrc' = [vsrc EXCEPT ![v] = first]
                   /\ vpc' = [vpc EXCEPT ![v] = "evidence"]
                   /\ UNCHANGED << vresults, vidx, vpivot >>
              ELSE /\ UNCHANGED vsrc
                   /\ ValAfterEvidence(v)
    /\ UNCHANGED << strategies, targets, evolved, companies, lessons, evidence, has_evidence >>
    /\ UNCHANGED << vreq, vver, vleads, vev, vlabel >>
    /\ UNCHANGED beside_val

\* CREATE INDEX evidence_url ... ON (e.source_url) (setup_neo4j.py:30) is an
\* index, not a uniqueness constraint: a MERGE of (e:Evidence {source_url})
\* that matches no node has nothing to lock, and creates its node in a
\* second step that another transaction's MERGE may come before.
evidence_url_unique == FALSE

\* After _store_evidence: the next source with a url, or the rest of
\* validate_single_lead.
ValAfterSource(v) ==
    LET next == NextSource(vev[v].sources, vsrc[v] + 1)
    IN  IF next # 0
        THEN /\ vsrc' = [vsrc EXCEPT ![v] = next]
             /\ vpc' = [vpc EXCEPT ![v] = "evidence"]
             /\ UNCHANGED << vresults, vidx, vpivot >>
        ELSE /\ UNCHANGED vsrc
             /\ ValAfterEvidence(v)

\* The node a MERGE (e:Evidence {source_url: $url}) creates: ON CREATE SET
\* e.summary, e.retrieved_at (the summary stands for both).
EvidenceNode(v) ==
    [source_url |-> vev[v].sources[vsrc[v]], summary |-> vev[v].summaries[vsrc[v]], by |-> v]

\* _store_evidence, lines 57-72 (called at lines 195-199 for a source with a url):
\* MATCH (c:Company {domain}) MERGE (e:Evidence {source_url}) ON CREATE SET
\* ...  MERGE (c)-[:HAS_EVIDENCE]->(e).  With nodes of that url in the store
\* the statement links the lead to them; with none, and no constraint to
\* serialise on, it goes on to create one (ValCreateEvidence).
ValStoreEvidence(v) ==
    /\ vpc[v] = "evidence"
    /\ LET d == vleads[v][vidx[v]].domain
           old == { e \in evidence : e.source_url = vev[v].sources[vsrc[v]] }
       IN  IF d \notin companies
           THEN /\ UNCHANGED << evidence, has_evidence >>
                /\ ValAfterSource(v)
           ELSE IF old # {}
           THEN /\ has_evidence' = has_evidence \cup { [c |-> d, e |-> e] : e \in old }
                /\ UNCHANGED evidence
                /\ ValAfterSource(v)
           ELSE IF evidence_url_unique
           THEN /\ evidence' = evidence \cup { EvidenceNode(v) }
                /\ has_evidence' = has_evidence \cup { [c |-> d, e |-> EvidenceNode(v)] }
                /\ ValAfterSource(v)
           ELSE /\ vpc' = [vpc EXCEPT ![v] = "evidence_create"]
                /\ UNCHANGED << evidence, has_evidence, vsrc, vresults, vidx, vpivot >>
    /\ UNCHANGED << strategies, targets, evolved, companies, classification, lessons >>
    /\ UNCHANGED << vreq, vver, vleads, vev, vlabel >>
    /\ UNCHANGED beside_val

\* The same statement, after its MERGE matched no node: the node is created
\* and the lead linked to it (nothing, if the Company node went meanwhile).
ValCreateEvidence(v) ==
    /\ vpc[v] = "evidence_create"
    /\ LET d == vleads[v][vidx[v]].domain
       IN  IF d \in companies
           THEN /\ evidence' = evidence \cup { EvidenceNode(v) }
                /\ has_evidence' = has_evidence \cup { [c |-> d, e |-> EvidenceNode(v)] }
           ELSE UNCHANGED << evidence, has_evidence >>
    /\ ValAfterSource(v)
    /\ UNCHANGED << strategies, targets, evolved, companies, classification, lessons >>
    /\ UNCHANGED << vreq, vver, vleads, vev, vlabel >>
    /\ UNCHANGED beside_val

\* _derive_mismatch_type(company, evidence), lines 148-155
SizeBeforeMismatch(props, ev) ==
    LET employees == IF props.employees = << >> THEN << 0 >> ELSE props.employees
    IN  IF Len(employees) = 1 /\ employees[1] < 25 THEN "CompanyTooSmall"
        ELSE IF ev.mismatch THEN "TechStackMismatch"
        ELSE "Disregard"

\* employees = company.get("employees", 0); isinstance(employees, int) holds
\* of the int values only.
derive_mismatch_type(props, ev) ==
    LET employees == IF props.employees = << >> THEN << 0 >> ELSE props.employees
    IN  IF ev.mismatch THEN "TechStackMismatch"
        ELSE IF Len(employees) = 1 /\ employees[1] < 25 THEN "CompanyTooSmall"
        ELSE "Disregard"

\* lines 205-207: evidence.get("mismatch_details") or "<name> classified as
\* Disregard by the SLM."
DetailsFromEvidenceOnly(ev) == ev.mismatch_details

lesson_details(ev) ==
    IF ev.mismatch_details.kind # "none" THEN ev.mismatch_details
    ELSE [kind |-> "classified_disregard", claimed |-> {}, actual |-> {}]

\* _store_lesson, lines 75-95 (called at line 208): MATCH (c:Company {domain})
\* CREATE (l:Lesson {...}) CREATE (c)-[:LEARNED_FROM]->(l)
ValStoreLesson(v) ==
    /\ vpc[v] = "lesson"
    /\ Cardinality(lessons) < env.lesson_cap
    /\ LET d == vleads[v][vidx[v]].domain
       IN  \E now \in env.clock :
             lessons' = IF d \in companies
                        THEN lessons \cup
                               { Lesson(derive_mismatch_type(CompanyProps(d), vev[v]),
                                        lesson_details(vev[v]), now, OnCompany(d)) }
                        ELSE lessons
    /\ ValFinishLead(v)
    /\ UNCHANGED << strategies, targets, evolved, companies, classification,
                    evidence, has_evidence >>
    /\ UNCHANGED << vreq, vver, vleads, vev, vlabel, vsrc >>
    /\ UNCHANGED beside_val

\* lines 292-298: the details of the pass-level lesson name the rate and the
\* disregarded leads, in result order.
RECURSIVE disregarded_of(_)
disregarded_of(results) ==
    IF results = << >> THEN << >>
    ELSE LET r == results[Len(results)]
             before == disregarded_of(SubSeq(results, 1, Len(results) - 1))
         IN  IF r.classification = "Disregard" THEN Append(before, r.domain) ELSE before

pivot_details(results) ==
    [kind |-> "segment_pivot", rate |-> disregard_rate(results),
     disregarded |-> disregarded_of(results)]

\* _store_pivot_lesson, lines 98-117 (called at lines 292-298):
\* MATCH (s:Strategy) WITH s ORDER BY s.version DESC LIMIT 1
\* CREATE (l:Lesson {type: 'SegmentPivot', ...}) CREATE (s)-[:LEARNED_FROM]->(l)
PivotLessonOnValidated(v, now) ==
    { Lesson("SegmentPivot", pivot_details(vresults[v]), now, OnStrategy(s)) :
        s \in StrategyByVersion(vver[v]) }

pivot_lesson_rows(v, now) ==
    { Lesson("SegmentPivot", pivot_details(vresults[v]), now, OnStrategy(s)) :
        s \in CurrentStrategies }

\* lines 292-298: await asyncio.to_thread(_store_pivot_lesson, ...), with no
\* handler around it: the statement runs, or session.run raises and the
\* exception leaves run_validation_loop.
ValStorePivotLesson(v) ==
    /\ vpc[v] = "pivot_lesson"
    /\ \/ /\ Cardinality(lessons) < env.lesson_cap
          /\ \E now \in env.clock :
               LET rows == pivot_lesson_rows(v, now)
               IN  lessons' = IF rows = {} THEN lessons
                              ELSE lessons \cup { CHOOSE l \in rows : TRUE }
          /\ vpc' = [vpc EXCEPT ![v] = "done"]
       \/ /\ env.store_failures
          /\ vpc' = [vpc EXCEPT ![v] = "failed"]
          /\ UNCHANGED lessons
    /\ UNCHANGED << strategies, targets, evolved, companies, classification,
                    evidence, has_evidence >>
    /\ UNCHANGED << vreq, vver, vleads, vidx, vev, vlabel, vsrc, vresults, vpivot >>
    /\ UNCHANGED beside_val

\* lines 300-310 (the result), 253 and 260 (an error result), or the
\* exception of a failed call: the request ends.
ValReturn(v) ==
    /\ vpc[v] \in { "done", "error", "failed" }
    /\ vpc' = [vpc EXCEPT ![v] = "idle"]
    /\ ValLocalsInit(v)
    /\ UNCHANGED << store_vars, beside_val >>

\* lines 300-310: the result of a pass that got through, in the fields that
\* carry the counts (results holds the domain and label of each lead's result).
validation_result(v) ==
    [strategy_version |-> vver[v],
     total_leads |-> Len(vresults[v]),
     strike |-> CountOf(vresults[v], "Strike"),
     monitor |-> CountOf(vresults[v], "Monitor"),
     disregard |-> CountOf(vresults[v], "Disregard"),
     pivot_triggered |-> vpivot[v],
     results |-> vresults[v]]

\* The task of a pass is cancelled where it is suspended, in one of the
\* awaits of lines 264-298: CancelledError leaves run_validation_loop.  (A
\* statement already running in its worker thread still completes: that is
\* the step of the statement, followed by the cancellation at the next await.)
ValCancel(v) ==
    /\ vpc[v] \in { "check", "update_classification", "evidence", "evidence_create",
                    "lesson", "pivot_lesson" }
    /\ vpc' = [vpc EXCEPT ![v] = "failed"]
    /\ UNCHANGED << vreq, vver, vleads, vidx, vev, vlabel, vsrc, vresults, vpivot >>
    /\ UNCHANGED << store_vars, beside_val >>

ValInit ==
    /\ vpc = [v \in ValProcs |-> "idle"]
    /\ vreq = [v \in ValProcs |-> 0]
    /\ vver = [v \in ValProcs |-> 0]
    /\ vleads = [v \in ValProcs |-> << >>]
    /\ vidx = [v \in ValProcs |-> 0]
    /\ vev = [v \in ValProcs |-> fact_check_lead(<< >>, << >>)]
    /\ vlabel = [v \in ValProcs |-> "none"]
    /\ vsrc = [v \in ValProcs |-> 0]
    /\ vresults = [v \in ValProcs |-> << >>]
    /\ vpivot = [v \in ValProcs |-> FALSE]

(***************************************************************************)
(* agent/pivot.py: run_pivot_drafting                                      *)
(***************************************************************************)

\* trigger_event["competitor"] of the events that may come in.
Competitors == { "DigitalOcean", "AWS", "sql" }

\* _get_affected_leads, lines 46-51: the lead has a tech_stack entry that,
\* lowercased, contains the lowercased competitor; tabulated per competitor
\* and lead.
lead_affected ==
    [c \in Competitors |->
       [d \in Domains |->
          \E i \in DOMAIN CompanyProps(d).tech_stack :
              IsSubstr(Lower(c), Lower(CompanyProps(d).tech_stack[i]))]]

\* Python: [x for x in rows if keep(x)]
RECURSIVE Filter(_, _)
Filter(rows, keep) ==
    IF rows = << >> THEN << >>
    ELSE LET before == Filter(SubSeq(rows, 1, Len(rows) - 1), keep)
         IN  IF rows[Len(rows)] \in keep THEN Append(before, rows[Len(rows)]) ELSE before

\* _get_affected_leads(competitor), lines 26-55: the leads the latest strategy
\* TARGETS, narrowed to the affected ones if there is any.
AffectedOnly(competitor) ==
    { Filter(leads, { d \in Domains : lead_affected[competitor][d] }) :
        leads \in RowOrders(UNION { TargetsOf(s) : s \in CurrentStrategies }) }

get_affected_leads(competitor) ==
    { LET affected == Filter(leads, { d \in Domains : lead_affected[competitor][d] })
      IN  IF affected # << >> THEN affected ELSE leads :
        leads \in RowOrders(UNION { TargetsOf(s) : s \in CurrentStrategies }) }

PivLocalsInit ==
    /\ pevent' = [status |-> "none", competitor |-> "none"]
    /\ pver' = 0
    /\ pleads' = << >>
    /\ pemails' = 0

\* lines 104-106: strategy = _get_current_strategy(); without one the
\* request returns {"error": "No strategy found"}.
PivotStart ==
    /\ ppc = "idle"
    /\ \E c \in env.events : pevent' = [status |-> "critical_outage", competitor |-> c]
    /\ IF CurrentStrategies = {}
       THEN /\ ppc' = "error"
            /\ UNCHANGED pver
       ELSE /\ ppc' = "get_affected"
            /\ \E s \in CurrentStrategies : pver' = s.version
    /\ UNCHANGED << pleads, pemails >>
    /\ UNCHANGED << store_vars, beside_piv >>

\* lines 108-117: affected = _get_affected_leads(competitor); with none the
\* request returns affected_leads = 0 and no emails.
PivotGetAffected ==
    /\ ppc = "get_affected"
    /\ \E affected \in get_affected_leads(pevent.competitor) :
         /\ pleads' = affected
         /\ ppc' = IF affected = << >> THEN "done" ELSE "draft"
    /\ UNCHANGED << pevent, pver, pemails >>
    /\ UNCHANGED << store_vars, beside_piv >>

\* lines 119-129: one email = await draft_pivot_email(company, ...) of the
\* loop; the provider's text is decoded into the email, or the call raises
\* and the exception leaves run_pivot_drafting.  _log_pivot_event comes
\* after the loop, once there is a draft for every affected lead
\* (after_draft: where the request goes on after a draft).
LogAfterEachDraft(drafted, affected) == "log"

after_draft(drafted, affected) == IF drafted = Len(affected) THEN "log" ELSE "draft"

PivotDraft ==
    /\ ppc = "draft"
    /\ \/ \E raw \in env.outputs :
            IF decoded_draft[raw].ok
            THEN /\ pemails' = pemails + 1
                 /\ ppc' = after_draft(pemails + 1, pleads)
            ELSE /\ ppc' = "failed"
                 /\ UNCHANGED pemails
       \/ /\ ppc' = "failed"
          /\ UNCHANGED pemails
    /\ UNCHANGED << pevent, pver, pleads >>
    /\ UNCHANGED << store_vars, beside_piv >>

\* _log_pivot_event, lines 69-75: CREATE (l:Lesson {...}) adds a node and
\* leaves every other one alone; l is the new node.
MergeLessonByType(l) == { x \in lessons : x.type # l.type } \cup { l }

create_lesson(l) == lessons \cup { l }

\* _log_pivot_event, lines 58-83: the rows of MATCH (s:Strategy) WITH s ORDER
\* BY s.version DESC LIMIT 1, each with its new TriggerPivot Lesson.
TriggerLessonWithoutCount(now) ==
    { Lesson("TriggerPivot",
             [kind |-> "trigger_pivot", status |-> pevent.status,
              competitor |-> pevent.competitor, drafted |-> 0],
             now, OnStrategy(s)) : s \in CurrentStrategies }

trigger_lesson_rows(now) ==
    { Lesson("TriggerPivot",
             [kind |-> "trigger_pivot", status |-> pevent.status,
              competitor |-> pevent.competitor, drafted |-> pemails],
             now, OnStrategy(s)) : s \in CurrentStrategies }

\* line 129: _log_pivot_event(trigger_event, len(emails))
PivotLog ==
    /\ ppc = "log"
    /\ Cardinality(lessons) < env.lesson_cap
    /\ \E now \in env.clock :
         LET rows == trigger_lesson_rows(now)
         IN  lessons' = IF rows = {} THEN lessons
                        ELSE create_lesson(CHOOSE l \in rows : TRUE)
    /\ ppc' = "done"
    /\ UNCHANGED << strategies, targets, evolved, companies, classification,
                    evidence, has_evidence >>
    /\ UNCHANGED << pevent, pver, pleads, pemails >>
    /\ UNCHANGED beside_piv

\* lines 106, 112-117, 131-136 (a result) or the exception of a failed
\* draft: the request ends.
PivotReturn ==
    /\ ppc \in { "done", "error", "failed" }
    /\ ppc' = "idle"
    /\ PivLocalsInit
    /\ UNCHANGED << store_vars, beside_piv >>

PivInit ==
    /\ ppc = "idle"
    /\ pevent = [status |-> "none", competitor |-> "none"]
    /\ pver = 0
    /\ pleads = << >>
    /\ pemails = 0

(***************************************************************************)
(* services/feed_manager.py: ConnectionManager, and ws_feed of main.py     *)
(***************************************************************************)

Listeners == { "w1", "w2", "w3" }   \* the websockets of /api/ws/feed clients
BProcs == { "b1", "b2" }            \* coroutines that call feed_manager.broadcast
                                    \* (a validation pass and a strategy pipeline)

\* list.append(x) (line 12)
InsertFirst(l, x) == << x >> \o l

list_append(l, x) == Append(l, x)

\* list.remove(x) (lines 16 and 33): the list without the first x; the
\* call raises ValueError when x is not in the list.
RECURSIVE list_remove(_, _)
list_remove(l, x) ==
    IF l = << >> THEN << >>
    ELSE IF Head(l) = x THEN Tail(l)
    ELSE << Head(l) >> \o list_remove(Tail(l), x)

\* for conn in stale: self.active_connections.remove(conn) (lines 32-33),
\* run on the list l: the list left, and whether a remove raised (the loop
\* ends there).
RECURSIVE remove_each(_, _)
remove_each(l, stale) ==
    IF stale = << >> THEN [list |-> l, raised |-> FALSE]
    ELSE IF Head(stale) \notin Range(l) THEN [list |-> l, raised |-> TRUE]
    ELSE remove_each(list_remove(l, Head(stale)), Tail(stale))

\* ws_feed, main.py:342 and feed_manager.py:10-11: the handler of a new
\* websocket awaits websocket.accept().
WsConnect(w) ==
    /\ lpc[w] = "none"
    /\ lpc' = [lpc EXCEPT ![w] = "accept"]
    /\ UNCHANGED << active_connections, sock, bpc, bit, bconn, bstale, sent, pruned, bbarred, blisted >>
    /\ UNCHANGED beside_feed

\* feed_manager.py:12: the websocket is appended, and ws_feed waits in
\* receive_text (main.py:344-345); an accept that fails ends the handler.
WsAccepted(w) ==
    /\ lpc[w] = "accept"
    /\ IF sock[w] = "open"
       THEN /\ active_connections' = list_append(active_connections, w)
            /\ lpc' = [lpc EXCEPT ![w] = "receive"]
       ELSE /\ lpc' = [lpc EXCEPT ![w] = "ended"]
            /\ UNCHANGED active_connections
    /\ UNCHANGED << sock, bpc, bit, bconn, bstale, sent, pruned, bbarred, blisted >>
    /\ UNCHANGED beside_feed

\* The client of a websocket goes away: from then a send to it raises, and
\* its receive_text raises WebSocketDisconnect.
ClientLeaves(w) ==
    /\ lpc[w] \in { "accept", "receive" }
    /\ sock[w] = "open"
    /\ sock' = [sock EXCEPT ![w] = "closed"]
    /\ UNCHANGED << active_connections, lpc, bpc, bit, bconn, bstale, sent, pruned, bbarred, blisted >>
    /\ UNCHANGED beside_feed

\* main.py:346-347 and feed_manager.py:14-18: on WebSocketDisconnect the
\* handler calls disconnect, which removes the websocket if it is listed.
WsDisconnect(w) ==
    /\ lpc[w] = "receive"
    /\ sock[w] = "closed"
    /\ active_connections' = list_remove(active_connections, w)
    /\ lpc' = [lpc EXCEPT ![w] = "ended"]
    /\ UNCHANGED << sock, bpc, bit, bconn, bstale, sent, pruned, bbarred, blisted >>
    /\ UNCHANGED beside_feed

\* broadcast, lines 27-33, from where the list iterator has taken i items
\* to the next point where the coroutine may be suspended: the iterator
\* gives the item at its index in the list as it is now, and line 29 awaits
\* its send; or the index is past the end, the loop is over and lines 32-33
\* remove the stale websockets, up to one that is no longer listed: its
\* remove raises ValueError, which leaves broadcast.
BroadcastLoop(b, i, stale) ==
    /\ bstale' = [bstale EXCEPT ![b] = stale]
    /\ IF i < Len(active_connections)
       THEN /\ bconn' = [bconn EXCEPT ![b] = active_connections[i + 1]]
            /\ bit' = [bit EXCEPT ![b] = i + 1]
            /\ bpc' = [bpc EXCEPT ![b] = "send"]
            /\ UNCHANGED << active_connections, pruned >>
       ELSE LET r == remove_each(active_connections, stale)
            IN  /\ active_connections' = r.list
                /\ pruned' = pruned \cup (Range(active_connections) \ Range(r.list))
                /\ bpc' = [bpc EXCEPT ![b] = IF r.raised THEN "raised" ELSE "returned"]
                /\ bit' = [bit EXCEPT ![b] = i]
                /\ UNCHANGED bconn

\* broadcast, lines 20-27: the message is built, stale is empty, the loop
\* begins.
BroadcastStart(b) ==
    /\ bpc[b] = "idle"
    /\ sent' = [sent EXCEPT ![b] = [w \in Listeners |-> 0]]
    /\ bbarred' = [bbarred EXCEPT ![b] = pruned]
    /\ blisted' = [blisted EXCEPT ![b] = Range(active_connections)]
    /\ BroadcastLoop(b, 0, << >>)
    /\ UNCHANGED << lpc, sock >>
    /\ UNCHANGED beside_feed

\* lines 28-31: await conn.send_text(message) returns, or raises and conn
\* goes on the stale list; the loop goes on.
BroadcastSend(b) ==
    /\ bpc[b] = "send"
    /\ IF sock[bconn[b]] = "open"
       THEN /\ sent' = [sent EXCEPT ![b][bconn[b]] = @ + 1]
            /\ BroadcastLoop(b, bit[b], bstale[b])
       ELSE /\ UNCHANGED sent
            /\ BroadcastLoop(b, bit[b], Append(bstale[b], bconn[b]))
    /\ UNCHANGED << lpc, sock, bbarred, blisted >>
    /\ UNCHANGED beside_feed

\* The call is over: its caller goes on, or has the exception.
BroadcastEnd(b) ==
    /\ bpc[b] \in { "returned", "raised" }
    /\ bpc' = [bpc EXCEPT ![b] = "idle"]
    /\ bit' = [bit EXCEPT ![b] = 0]
    /\ bconn' = [bconn EXCEPT ![b] = "w1"]
    /\ bstale' = [bstale EXCEPT ![b] = << >>]
    /\ sent' = [sent EXCEPT ![b] = [w \in Listeners |-> 0]]
    /\ bbarred' = [bbarred EXCEPT ![b] = {}]
    /\ blisted' = [blisted EXCEPT ![b] = {}]
    /\ UNCHANGED << active_connections, lpc, sock, pruned >>
    /\ UNCHANGED beside_feed

\* feed_manager = ConnectionManager() (line 36): no connection, no call.
FeedIdle ==
    /\ active_connections = << >>
    /\ lpc = [w \in Listeners |-> "none"]
    /\ sock = [w \in Listeners |-> "open"]
    /\ bpc = [b \in BProcs |-> "idle"]
    /\ bit = [b \in BProcs |-> 0]
    /\ bconn = [b \in BProcs |-> "w1"]
    /\ bstale = [b \in BProcs |-> << >>]
    /\ sent = [b \in BProcs |-> [w \in Listeners |-> 0]]
    /\ pruned = {}
    /\ bbarred = [b \in BProcs |-> {}]
    /\ blisted = [b \in BProcs |-> {}]

FeedNext ==
    \/ \E w \in Listeners : WsConnect(w) \/ WsAccepted(w) \/ ClientLeaves(w) \/ WsDisconnect(w)
    \/ \E b \in BProcs : BroadcastStart(b) \/ BroadcastSend(b) \/ BroadcastEnd(b)

(***************************************************************************)
(* The fact-check harness: fact_check_lead applied to bounded inputs.      *)
(***************************************************************************)

\* Spellings a stored tech_stack may use (setup_neo4j.py seeds capitalised names).
ClaimedNames == { "Postgres", "PostgreSQL", "MongoDB", "Golang", "AWS" }

\* Snippets a search result may carry.
Snippets == { "", "runs postgres", "PostgreSQL 16", "MongoDB Atlas", "written in golang",
              "on AWS" }

MaxClaimed == 2
MaxResults == 2

SeqsUpTo(S, n) == UNION { [1..k -> S] : k \in 0..n }

FcIdle ==
    /\ fc_claimed = << >>
    /\ fc_results = << >>
    /\ fc_out = fact_check_lead(<< >>, << >>)
    /\ fc_pc = "input"

FcInit ==
    /\ fc_claimed \in SeqsUpTo(ClaimedNames, MaxClaimed)
    /\ fc_results \in SeqsUpTo([url : {"u1"}, content : Snippets], MaxResults)
    /\ fc_out = fact_check_lead(<< >>, << >>)
    /\ fc_pc = "input"

FcCall ==
    /\ fc_pc = "input"
    /\ fc_pc' = "returned"
    /\ fc_out' = fact_check_lead(fc_claimed, fc_results)
    /\ UNCHANGED << fc_claimed, fc_results >>
    /\ UNCHANGED << store_vars, gen_vars, val_vars, piv_vars, cl_vars, feed_vars, env >>

(***************************************************************************)
(* The classifier harness: classify_lead applied to bounded provider texts *)
(***************************************************************************)

\* What a provider text is put together from, and of how many pieces.
TextPieces == { " ", "Strike", "disregard ", "Monitor.", "not sure, ", "'" }

MaxPieces == 3

RECURSIVE Concat(_)
Concat(pieces) ==
    IF pieces = << >> THEN "" ELSE pieces[1] \o Concat(SubSeq(pieces, 2, Len(pieces)))

ClIdle ==
    /\ cl_raw = ""
    /\ cl_out = "none"
    /\ cl_pc = "input"

ClInit ==
    /\ cl_raw \in { Concat(pieces) : pieces \in SeqsUpTo(TextPieces, MaxPieces) }
    /\ cl_out = "none"
    /\ cl_pc = "input"

ClCall ==
    /\ cl_pc = "input"
    /\ cl_pc' = "returned"
    /\ cl_out' \in classify_lead(cl_raw, Labels)
    /\ UNCHANGED cl_raw
    /\ UNCHANGED << store_vars, gen_vars, val_vars, piv_vars, fc_vars, feed_vars, env >>

(***************************************************************************)
(* The environment of a run: what the outside may do during it.            *)
(*   imports     the domains a lead import may add                         *)
(*   labels      per domain, the labels classify_lead may return           *)
(*   responses   the responses the web search may give                     *)
(*   outputs     the texts the SLM provider may return for a draft         *)
(*   failures    whether a provider call may raise                         *)
(*   store_failures  whether the statement of _store_pivot_lesson may      *)
(*               raise (the store cannot be reached)                       *)
(*   events      the competitors of the trigger events that come in        *)
(*   clock       the readings datetime.now() may give                      *)
(*   lesson_cap  no lesson is written once the store holds this many       *)
(***************************************************************************)

ImportDomains == { 1 }

\* A provider that answers as its prompt asks: the bare JSON object.
PlainDraft == { "{\"icp\": \"x\"}" }

\* Every label but one taken by the classifier, a silent web, a clock that
\* gives two readings, providers that may fail.
ClockEnv ==
    [imports |-> ImportDomains,
     labels |-> [d \in Domains |-> { "Disregard", "Monitor" }],
     responses |-> { << >> },
     outputs |-> PlainDraft,
     failures |-> TRUE,
     store_failures |-> FALSE,
     events |-> { "DigitalOcean", "AWS" },
     clock |-> Timestamps,
     lesson_cap |-> MaxLessons]

\* A web that answers, with and without sources, and a clock that stands.
WebEnv ==
    [imports |-> ImportDomains,
     labels |-> [d \in Domains |-> { "Disregard", "Strike" }],
     responses |-> WebResponses,
     outputs |-> PlainDraft,
     failures |-> FALSE,
     store_failures |-> FALSE,
     events |-> { "DigitalOcean", "AWS" },
     clock |-> { 1 },
     lesson_cap |-> MaxLessons]

ServiceEnvs == { ClockEnv, WebEnv }

\* A pass over n leads of which classify_lead disregards those of domain <= d.
PassEnv(n, d) ==
    [imports |-> {},
     labels |-> [x \in Domains |-> IF x <= d THEN { "Disregard" } ELSE { "Monitor" }],
     responses |-> { << >> },
     outputs |-> PlainDraft,
     failures |-> FALSE,
     store_failures |-> FALSE,
     events |-> { "DigitalOcean", "AWS" },
     clock |-> { 1 },
     lesson_cap |-> n + 1]

\* Passes over two leads: any label, a web that answers or not, calls that
\* may raise.
LeadEnv ==
    [imports |-> {},
     labels |-> [d \in Domains |-> Labels],
     responses |-> WebResponses,
     outputs |-> PlainDraft,
     failures |-> TRUE,
     store_failures |-> FALSE,
     events |-> { "DigitalOcean", "AWS" },
     clock |-> { 1 },
     lesson_cap |-> MaxLessons]

\* Two passes at a time over leads whose fact-check reports the same url.
EvidenceEnv ==
    [imports |-> {},
     labels |-> [d \in Domains |-> { "Monitor" }],
     responses |-> WebResponses \ { << >> },
     outputs |-> PlainDraft,
     failures |-> FALSE,
     store_failures |-> FALSE,
     events |-> { "DigitalOcean", "AWS" },
     clock |-> { 1 },
     lesson_cap |-> MaxLessons]

\* Every operation that writes a lesson: leads the classifier disregards
\* and trigger events.
LedgerEnv ==
    [imports |-> {},
     labels |-> [d \in Domains |-> { "Disregard" }],
     responses |-> WebResponses \ { << >> },
     outputs |-> PlainDraft,
     failures |-> FALSE,
     store_failures |-> FALSE,
     events |-> { "DigitalOcean", "AWS" },
     clock |-> { 1 },
     lesson_cap |-> MaxLessons]

\* A provider whose text may or may not hold a draft.
DecodeEnv ==
    [imports |-> ImportDomains,
     labels |-> [d \in Domains |-> { "Monitor" }],
     responses |-> { << >> },
     outputs |-> ProviderTexts,
     failures |-> FALSE,
     store_failures |-> FALSE,
     events |-> { "DigitalOcean", "AWS" },
     clock |-> { 1 },
     lesson_cap |-> MaxLessons]

\* Providers that may fail at any call: passes over leads the classifier
\* disregards or not, and trigger events whose drafts may not decode.
StepEnv ==
    [imports |-> {},
     labels |-> [d \in Domains |-> { "Disregard", "Monitor" }],
     responses |-> WebResponses \ { << >> },
     outputs |-> { "{\"icp\": \"x\"}", "Sure! {\"icp\": \"x\"}" },
     failures |-> TRUE,
     store_failures |-> FALSE,
     events |-> { "DigitalOcean", "AWS" },
     clock |-> { 1 },
     lesson_cap |-> MaxLessons + 1]

\* A store that may be out of reach when the pass-level lesson is written.
EvalEnv ==
    [imports |-> {},
     labels |-> [d \in Domains |-> { "Disregard", "Monitor" }],
     responses |-> WebResponses \ { << >> },
     outputs |-> PlainDraft,
     failures |-> FALSE,
     store_failures |-> TRUE,
     events |-> { "DigitalOcean", "AWS" },
     clock |-> { 1 },
     lesson_cap |-> MaxLessons + 1]

\* Trigger events for every competitor.
TriggerEnv ==
    [imports |-> {},
     labels |-> [d \in Domains |-> { "Monitor" }],
     responses |-> { << >> },
     outputs |-> PlainDraft,
     failures |-> FALSE,
     store_failures |-> FALSE,
     events |-> Competitors,
     clock |-> { 1 },
     lesson_cap |-> MaxLessons]

(***************************************************************************)
(* Specifications                                                          *)
(***************************************************************************)

EnvNext ==
    \/ reset_graph
    \/ \E d \in Domains : ImportLead(d)

GenNext(p) ==
    \/ GenStart(p)
    \/ GenGetVersion(p)
    \/ GenCallSLM(p)
    \/ GenStoreCreate(p)
    \/ GenStoreTargets(p)
    \/ GenStoreEvolved(p)
    \/ GenReturn(p)

ValNext(v) ==
    \/ ValStart(v)
    \/ ValGetLeads(v)
    \/ ValCheck(v)
    \/ ValUpdateClassification(v)
    \/ ValStoreEvidence(v)
    \/ ValCreateEvidence(v)
    \/ ValStoreLesson(v)
    \/ ValStorePivotLesson(v)
    \/ ValReturn(v)

\* The service: one client posting products, one client asking for validation
\* passes, lead imports and resets, in any interleaving.
Init == EmptyStore /\ GenInit /\ ValInit /\ PivInit /\ FeedIdle /\ FcIdle /\ ClIdle /\ env \in ServiceEnvs

Next ==
    \/ EnvNext
    \/ GenNext("g1")
    \/ ValNext("v1")

Spec == Init /\ [][Next]_vars

\* Concurrent strategy generation: two clients posting products while leads
\* are imported.
NextGen ==
    \/ \E d \in Domains : ImportLead(d)
    \/ \E p \in GenProcs : GenNext(p)

SpecGen == Init /\ [][NextGen]_vars

\* One strategy with n leads, of which the classifier disregards d, and
\* validation passes over it while a reset may come in.
PassInit ==
    \E n \in 1..MaxPassLeads : \E d \in 0..n :
        /\ env = PassEnv(n, d)
        /\ strategies = { [version |-> 1, by |-> "g1"] }
        /\ targets = { [s |-> [version |-> 1, by |-> "g1"], c |-> c] : c \in 1..n }
        /\ evolved = {}
        /\ companies = 1..n
        /\ classification = [c \in Domains |-> "unset"]
        /\ lessons = {}
        /\ evidence = {}
        /\ has_evidence = {}
        /\ GenInit /\ ValInit /\ PivInit /\ FeedIdle /\ FcIdle /\ ClIdle

NextPass ==
    \/ reset_graph
    \/ \E v \in { "v1" } :
          \/ ValStart(v)
          \/ ValGetLeads(v)
          \/ ValCheck(v)
          \/ ValUpdateClassification(v)
          \/ ValStoreLesson(v)
          \/ ValStorePivotLesson(v)
          \/ ValReturn(v)

SpecPass == PassInit /\ [][NextPass]_vars

\* One strategy that targets the leads ds, nothing else in the store.
OneStrategyOver(ds) ==
    /\ strategies = { [version |-> 1, by |-> "g1"] }
    /\ targets = { [s |-> [version |-> 1, by |-> "g1"], c |-> c] : c \in ds }
    /\ evolved = {}
    /\ companies = ds
    /\ classification = [c \in Domains |-> "unset"]
    /\ lessons = {}
    /\ evidence = {}
    /\ has_evidence = {}

\* Validation passes of one client over two leads, and resets.
LeadInit ==
    /\ OneStrategyOver({ 1, 2 })
    /\ GenInit /\ ValInit /\ PivInit /\ FeedIdle /\ FcIdle /\ ClIdle
    /\ env = LeadEnv

NextLead ==
    \/ reset_graph
    \/ ValNext("v1")

SpecLead == LeadInit /\ [][NextLead]_vars

\* Validation passes of one client over two leads that may be cancelled or
\* fail at any lead, and resets.
NextCancel ==
    \/ reset_graph
    \/ ValNext("v1")
    \/ ValCancel("v1")

SpecCancel == LeadInit /\ [][NextCancel]_vars

\* Two clients running validation passes over the same two leads.
EvidenceInit ==
    /\ OneStrategyOver({ 1, 2 })
    /\ GenInit /\ ValInit /\ PivInit /\ FeedIdle /\ FcIdle /\ ClIdle
    /\ env = EvidenceEnv

NextEvidence ==
    \E v \in ValProcs :
       \/ ValStart(v)
       \/ ValGetLeads(v)
       \/ ValCheck(v)
       \/ ValUpdateClassification(v)
       \/ ValStoreEvidence(v)
       \/ ValCreateEvidence(v)
       \/ ValReturn(v)

SpecEvidence == EvidenceInit /\ [][NextEvidence]_vars

\* Everything that touches the store, trigger events included.
PivNext ==
    \/ PivotStart
    \/ PivotGetAffected
    \/ PivotDraft
    \/ PivotLog
    \/ PivotReturn

LedgerInit ==
    /\ OneStrategyOver({ 1 }) /\ GenInit /\ ValInit /\ PivInit /\ FeedIdle /\ FcIdle /\ ClIdle
    /\ env = LedgerEnv

NextLedger ==
    \/ reset_graph
    \/ GenNext("g1")
    \/ ValNext("v1")
    \/ PivNext

SpecLedger == LedgerInit /\ [][NextLedger]_vars

\* Validation passes and trigger events over two leads, with providers that
\* may fail.
StepInit ==
    /\ OneStrategyOver({ 1, 2 }) /\ GenInit /\ ValInit /\ PivInit /\ FeedIdle /\ FcIdle /\ ClIdle
    /\ env = StepEnv

NextStep ==
    \/ ValNext("v1")
    \/ PivNext

SpecStep == StepInit /\ [][NextStep]_vars

\* Validation passes of one client over two leads, up to the pivot
\* evaluation at their end.
EvalInit ==
    /\ OneStrategyOver({ 1, 2 }) /\ GenInit /\ ValInit /\ PivInit /\ FeedIdle /\ FcIdle /\ ClIdle
    /\ env = EvalEnv

SpecEval == EvalInit /\ [][ValNext("v1")]_vars

\* One pass over four leads the classifier disregards: a small one, a large
\* one, one with no employees property and one whose employees is a float.
TypesEnv ==
    [imports |-> {},
     labels |-> [d \in Domains |-> { "Disregard" }],
     responses |-> WebResponses,
     outputs |-> PlainDraft,
     failures |-> FALSE,
     store_failures |-> FALSE,
     events |-> { "DigitalOcean", "AWS" },
     clock |-> { 1 },
     lesson_cap |-> 5]

TypesInit ==
    /\ OneStrategyOver({ 1, 2, 3, 4 })
    /\ GenInit /\ ValInit /\ PivInit /\ FeedIdle /\ FcIdle /\ ClIdle
    /\ env = TypesEnv

SpecTypes == TypesInit /\ [][ValNext("v1")]_vars

\* Trigger events on a strategy that targets up to MaxTargeted leads.
TriggerInit ==
    /\ \E ds \in SUBSET (1..MaxTargeted) : OneStrategyOver(ds)
    /\ GenInit /\ ValInit /\ PivInit /\ FeedIdle /\ FcIdle /\ ClIdle
    /\ env = TriggerEnv

NextTrigger ==
    \/ reset_graph
    \/ PivNext

SpecTrigger == TriggerInit /\ [][NextTrigger]_vars

\* The progress feed: clients of /api/ws/feed coming and going while two
\* pipelines broadcast.
FeedInit ==
    /\ EmptyStore /\ GenInit /\ ValInit /\ PivInit /\ FeedIdle /\ FcIdle /\ ClIdle
    /\ env = ClockEnv

SpecFeed == FeedInit /\ [][FeedNext]_vars

\* One client posting products to a provider whose text may not decode.
DecodeInit ==
    /\ EmptyStore /\ GenInit /\ ValInit /\ PivInit /\ FeedIdle /\ FcIdle /\ ClIdle
    /\ env = DecodeEnv

NextDecode ==
    \/ \E d \in Domains : ImportLead(d)
    \/ GenNext("g1")

SpecDecode == DecodeInit /\ [][NextDecode]_vars

\* classify_lead alone, on every bounded provider text.
ClassifyInit ==
    /\ EmptyStore /\ GenInit /\ ValInit /\ PivInit /\ FeedIdle /\ FcIdle /\ ClInit
    /\ env = ClockEnv

SpecClassify == ClassifyInit /\ [][ClCall]_vars

\* fact_check_lead alone, on every bounded input.
PolicyInit == EmptyStore /\ GenInit /\ ValInit /\ PivInit /\ FeedIdle /\ FcInit /\ ClIdle /\ env = ClockEnv

SpecPolicy == PolicyInit /\ [][FcCall]_vars

(***************************************************************************)
(* Properties                                                              *)
(***************************************************************************)

\* The mismatch rule as the specification words it, on two sets of names.
PolicyRule(claimed, discovered) ==
    LET cdb == { t \in claimed : t \in db_techs }
        ddb == { t \in discovered : t \in db_techs }
    IN  \/ cdb # {} /\ ddb # {} /\ (\A t \in cdb : t \notin ddb)
        \/ discovered # {} /\ (\A t \in claimed : t \notin discovered)

DbRuleApplies(claimed, discovered) ==
    /\ \E t \in claimed : t \in db_techs
    /\ \E t \in discovered : t \in db_techs
    /\ \A t \in claimed : t \in db_techs => t \notin discovered

\* C7: whatever the claimed stack and the search response, the verdict
\* fact_check_lead returns is true when both sides name a database and no
\* database is common to them (this rule comes first: the details then name
\* the two database sets, also when the sides share another technology),
\* otherwise true when something was discovered and nothing claimed is among
\* it, otherwise false; claimed {postgres} against discovered {mongodb} is a
\* mismatch, claimed {postgres} against discovered {postgres, aws} is none.
C7_MismatchPolicy ==
    /\ fc_pc = "returned" =>
          LET claimed == claimed_normalized(fc_claimed)
              discovered == fc_out.actual_tech
          IN  /\ fc_out.mismatch = PolicyRule(claimed, discovered)
              /\ DbRuleApplies(claimed, discovered) =>
                    /\ fc_out.mismatch_details.kind = "db"
                    /\ fc_out.mismatch_details.claimed = claimed \cap db_techs
                    /\ fc_out.mismatch_details.actual = discovered \cap db_techs
    /\ mismatch_verdict({ "postgres" }, { "mongodb" }).mismatch = TRUE
    /\ mismatch_verdict({ "postgres" }, { "postgres", "aws" }).mismatch = FALSE

\* The database rule decided a call whose two sides share a technology.
C7_Witness ==
    /\ fc_pc = "returned"
    /\ fc_out.mismatch
    /\ DbRuleApplies(claimed_normalized(fc_claimed), fc_out.actual_tech)
    /\ claimed_normalized(fc_claimed) \cap fc_out.actual_tech # {}

\* One token per technology: the spellings the service knows as variants.
Canonical(t) ==
    CASE t = "postgresql" -> "postgres"
      [] t = "golang" -> "go"
      [] OTHER -> t

CanonicalSet(S) == { Canonical(t) : t \in S }

\* C8: both sides of the comparison are brought to one token per technology
\* first, so the verdict is the one the rule gives on the canonical sets: a
\* claimed "PostgreSQL" against a discovered "postgres", or a claimed "Golang"
\* against a discovered "go", is no mismatch.
C8_SynonymsCollapsed ==
    fc_pc = "returned" =>
        fc_out.mismatch = PolicyRule(CanonicalSet(claimed_normalized(fc_claimed)),
                                     CanonicalSet(fc_out.actual_tech))

\* The Strategy node a request made in the _store_strategy call it is in.
Storing(p) == gpc[p] \in { "store_targets", "store_evolved" }

OwnNode(p) ==
    IF Storing(p) \/ gpc[p] = "done"
    THEN { s \in strategies : s.by = p /\ s.version = gprev[p] + 1 }
    ELSE {}

\* C1: however concurrent strategy generations interleave, no two Strategy
\* nodes ever have the same version, and every Strategy that is created has
\* the version one above the highest version in the store at that moment
\* (1 in a store without strategies).
C1_VersionsUniqueAndNext ==
    [][ /\ \A s, t \in strategies' : s.version = t.version => s = t
        /\ \A s \in strategies' \ strategies :
              /\ \A t \in strategies : t.version < s.version
              /\ s.version = 1 \/ \E t \in strategies : t.version = s.version - 1 ]_vars

\* Two requests raced: one of them lost, and the store holds the strategies
\* of two different requests.
C1_Witness ==
    /\ \E p \in GenProcs : gpc[p] = "conflict"
    /\ \E s, t \in strategies : s.by # t.by /\ s.version # t.version

\* C2: of the creators that race on one previous version at most one
\* succeeds; the CREATE of the loser is refused because the version is taken,
\* it changes nothing in the store (no Strategy, TARGETS or EVOLVED_FROM of
\* the loser), the request ends with the error and writes nothing more; and
\* the next request of the loser, when the version it read is still the
\* latest at its CREATE, creates the strategy with the next version.
C2_LoserFailsCleanRetrySucceeds ==
    [][ \A p \in GenProcs :
          /\ (gpc[p] = "store_create" /\ gpc'[p] # "store_create") =>
                LET v == gprev[p] + 1
                IN  /\ Cardinality({ s \in strategies' : s.version = v }) = 1
                    /\ gpc'[p] \in { "conflict", "store_targets" }
                    /\ gpc'[p] = "conflict" <=> (\E s \in strategies : s.version = v)
                    /\ gpc'[p] = "conflict" =>
                          /\ << strategies, targets, evolved >>' = << strategies, targets, evolved >>
                          /\ \A s \in strategies : s.version = v => s.by # p
                    /\ (gretry[p] /\ gprev[p] = get_latest_strategy_version) =>
                          /\ gpc'[p] = "store_targets"
                          /\ [version |-> get_latest_strategy_version + 1, by |-> p] \in strategies'
          /\ (gpc[p] = "conflict" /\ gpc'[p] # "conflict") =>
                /\ gpc'[p] = "idle"
                /\ gretry'[p]
                /\ store_vars' = store_vars ]_vars

\* The request after a lost race has created its strategy.
C2_Witness ==
    \E p \in GenProcs :
        /\ gretry[p]
        /\ gpc[p] = "done"
        /\ OwnNode(p) # {}
        /\ \E s \in strategies : s.by # p /\ s.version = gprev[p]

\* C3: creating a strategy is one atomic step for every other operation: in
\* no state a reader can see is a new Strategy node the one of highest
\* version while TARGETS edges to the leads in the store, or the
\* EVOLVED_FROM edge its creation is to write, are not there yet.
C3_CreationAtomic ==
    \A p \in GenProcs : \A s \in OwnNode(p) :
        (Storing(p) /\ s.version = get_latest_strategy_version) =>
            /\ companies \subseteq TargetsOf(s)
            /\ \A q \in (IF gevolved[p] = << >> THEN {}
                          ELSE StrategyByVersion(gevolved[p][1])) :
                  [curr |-> s, prev |-> q] \in evolved

\* C4: the TARGETS set of a strategy made by _store_strategy is the set of
\* the Company nodes that existed when the strategy was created, and no
\* later step adds a TARGETS edge to, or removes one from, a strategy that
\* exists.
C4_TargetsAreCreationSnapshot ==
    [][ /\ \A s \in strategies \cap strategies' :
              TargetsOf(s)' # TargetsOf(s) =>
                  \E p \in GenProcs : s \in OwnNode(p) /\ gpc[p] = "store_targets"
        /\ \A p \in GenProcs : \A s \in OwnNode(p) :
              (gpc[p] = "store_targets" /\ gpc'[p] # "store_targets") =>
                  TargetsOf(s)' = gsnap[p] ]_vars

\* The step in which a request reads the lessons / calls the SLM function.
ReadsLessons(p) == gpc[p] = "idle" /\ gpc'[p] = "get_version"

CallsSLM(p) == gpc[p] = "slm" /\ gpc'[p] # "slm"

\* C5 as stated: the branch follows the lessons in the store at the time of
\* the call: with a Lesson in the store refine_strategy is called, with none
\* generate_strategy, and exactly one of the two, also while validation
\* passes add lessons during the run.
C5_BranchByLessonsAtCall ==
    [][ \A p \in GenProcs : CallsSLM(p) =>
          /\ Cardinality(gcalled'[p]) = 1
          /\ lessons # {} => gcalled'[p] = { "refine_strategy" }
          /\ lessons = {} => gcalled'[p] = { "generate_strategy" } ]_vars

\* C5, amended: a run calls refine_strategy if and only if a Lesson was in the
\* store when the run read the lessons (line 128), and generate_strategy
\* otherwise; it calls exactly one of the two, whatever is added to or
\* removed from the store after that read.
C5_BranchByLessonsRead ==
    [][ \A p \in GenProcs :
          /\ ReadsLessons(p) => ((glessons'[p] # << >>) <=> (lessons # {}))
          /\ (gpc[p] \in { "get_version", "slm" }) => glessons'[p] = glessons[p]
          /\ CallsSLM(p) =>
                /\ gcalled[p] = {}
                /\ Cardinality(gcalled'[p]) = 1
                /\ (glessons[p] # << >>) <=> gcalled'[p] = { "refine_strategy" }
                /\ (glessons[p] = << >>) <=> gcalled'[p] = { "generate_strategy" }
          /\ (gpc[p] \notin { "slm", "idle" } /\ gpc'[p] # "idle") => gcalled'[p] = gcalled[p] ]_vars

\* A run refined on the lessons it read while a pass has added one since.
C5_Witness ==
    \E p \in GenProcs :
        /\ gpc[p] = "store_create"
        /\ gcalled[p] = { "refine_strategy" }
        /\ Len(glessons[p]) = 1
        /\ Cardinality(lessons) = 2

\* C6: the list a run reads for refine_strategy (and returns as lessons_used)
\* has one row for every Lesson node in the store at the time of the read,
\* those on a Company and those on a Strategy, in ascending order of
\* timestamp, and the refinement prompt has one line per row, "- [type]
\* details", in the order of the list.
C6_RefineSeesAllLessonsInOrder ==
    [][ \A p \in GenProcs :
          /\ ReadsLessons(p) =>
                \E f \in [1..Cardinality(lessons) -> lessons] :
                    /\ \A l \in lessons : \E i \in DOMAIN f : f[i] = l
                    /\ \A i, j \in DOMAIN f : i < j => f[i].timestamp <= f[j].timestamp
                    /\ Len(glessons'[p]) = Cardinality(lessons)
                    /\ \A i \in DOMAIN f :
                          /\ glessons'[p][i].type = f[i].type
                          /\ glessons'[p][i].details = f[i].details
          /\ (gpc[p] # "idle" /\ gpc'[p] # "idle") => glessons'[p] = glessons[p]
          /\ (CallsSLM(p) /\ "refine_strategy" \in gcalled'[p]) =>
                /\ Len(gprompt'[p]) = Len(glessons[p])
                /\ \A i \in DOMAIN glessons[p] :
                      gprompt'[p][i] =
                          << "- [", glessons[p][i].type, "] ", glessons[p][i].details >> ]_vars

\* A refinement on two lessons, one of a lead and one of a strategy, the one
\* written second carrying the earlier timestamp.
C6_Witness ==
    \E p \in GenProcs :
        /\ gpc[p] = "store_create"
        /\ "refine_strategy" \in gcalled[p]
        /\ Len(gprompt[p]) = 2
        /\ glessons[p][1].type = "SegmentPivot"
        /\ glessons[p][2].type # "SegmentPivot"
        /\ \E k, l \in lessons :
              /\ k.type = "SegmentPivot" /\ k.owner.label = "Strategy"
              /\ l.owner.label = "Company"
              /\ k.timestamp < l.timestamp /\ k.lesson_id > l.lesson_id

\* The SegmentPivot lessons a step adds to the store.
NewPivotLessons == { l \in lessons' \ lessons : l.type = "SegmentPivot" }

\* The step in which a pass finishes its last lead / runs _store_pivot_lesson.
EndsLeads(v) ==
    /\ vpc[v] \in { "update_classification", "evidence", "lesson" }
    /\ vpc'[v] \in { "pivot_lesson", "done" }

WritesPivotLesson(v) == vpc[v] = "pivot_lesson" /\ vpc'[v] = "done"

Disregards(results) ==
    Cardinality({ i \in DOMAIN results : results[i].classification = "Disregard" })

\* What C9 says of the report in both its forms: pivot_triggered is true
\* exactly when disregard_count / total > 0.6, that is 5 * disregard_count >
\* 3 * total, and only a pass that reports true goes on to write the lesson.
PivotReported(v) ==
    /\ EndsLeads(v) =>
          /\ Len(vresults'[v]) >= 1
          /\ vpivot'[v] <=> 5 * Disregards(vresults'[v]) > 3 * Len(vresults'[v])
          /\ vpc'[v] = "pivot_lesson" <=> vpivot'[v]
    /\ (vpc[v] \in { "pivot_lesson", "done" } /\ vpc'[v] # "idle") =>
          /\ vpivot'[v] = vpivot[v]
          /\ vresults'[v] = vresults[v]

\* C9 as stated: pivot_triggered is reported exactly when the rate exceeds
\* 0.6 (7 of 10 does, 6 of 10 and 3 of 5 do not), a pass that reports true
\* creates exactly one new SegmentPivot Lesson, and no other step of a pass
\* creates one.
C9_PivotLessonExactlyOne ==
    [][ /\ \A v \in ValProcs :
              /\ PivotReported(v)
              /\ WritesPivotLesson(v) => Cardinality(NewPivotLessons) = 1
        /\ NewPivotLessons # {} => \E v \in ValProcs : WritesPivotLesson(v) ]_vars

\* C9, amended: as stated, but a pass that reports true creates exactly one
\* new SegmentPivot Lesson when a Strategy is in the store at the time the
\* lesson is written, and none when there is no Strategy then.
C9_PivotLessonIfStrategy ==
    [][ /\ \A v \in ValProcs :
              /\ PivotReported(v)
              /\ WritesPivotLesson(v) =>
                    /\ vpivot[v]
                    /\ Cardinality(NewPivotLessons) = (IF strategies # {} THEN 1 ELSE 0)
        /\ NewPivotLessons # {} => \E v \in ValProcs : WritesPivotLesson(v) ]_vars

\* A pass over ten leads with seven disregarded has reported the pivot and
\* the store holds its one SegmentPivot lesson.
C9_Witness ==
    \E v \in ValProcs :
        /\ vpc[v] = "done"
        /\ Len(vresults[v]) = 10
        /\ Disregards(vresults[v]) = 7
        /\ vpivot[v]
        /\ Cardinality({ l \in lessons : l.type = "SegmentPivot" }) = 1
        /\ Cardinality(lessons) = 8

\* C10: the SegmentPivot lesson of a pass is attached to the strategy of
\* highest version in the store at the time the lesson is written, whichever
\* version the pass validated: with a higher version than the validated one
\* in the store, the lesson goes to that one and the validated one gets none.
C10_PivotLessonOnLatest ==
    [][ \A v \in ValProcs : WritesPivotLesson(v) =>
          \A l \in NewPivotLessons :
              /\ l.owner.label = "Strategy"
              /\ \E s \in strategies : s.version = l.owner.key
              /\ \A s \in strategies : s.version <= l.owner.key
              /\ (\E s \in strategies : s.version > vver[v]) => l.owner.key # vver[v] ]_vars

\* A pass over version 1 has written its pivot lesson and the lesson is on
\* version 2, none on version 1.
C10_Witness ==
    \E v \in ValProcs :
        /\ vpc[v] = "done"
        /\ vver[v] = 1
        /\ vpivot[v]
        /\ \E l \in lessons : l.type = "SegmentPivot" /\ l.owner = [label |-> "Strategy", key |-> 2]
        /\ \A l \in lessons : l.type = "SegmentPivot" => l.owner.key # 1

(***************************************************************************)
(* Validation of one lead                                                  *)
(***************************************************************************)

\* The request of v ends in this step.
PassEnds(v) == vpc[v] # "idle" /\ vpc'[v] = "idle"

\* C11: a pass that read the leads of its strategy ends with a result, and
\* the result has an entry for every one of those leads, whether or not the
\* scoring of one of them raised.
C11_LeadErrorDoesNotAbortPass ==
    [][\A v \in ValProcs :
          (PassEnds(v) /\ vleads[v] # << >>) =>
             /\ vpc[v] = "done"
             /\ \A i \in DOMAIN vleads[v] :
                   \E j \in DOMAIN vresults[v] :
                       vresults[v][j].domain = vleads[v][i].domain]_vars

\* validate_single_lead of v has written the classification of its lead and
\* has not returned.
MidPersistence(v) == vpc[v] \in { "evidence", "evidence_create", "lesson" }

\* C12: no state shows a lead with the classification of a validation in
\* progress stored while an evidence link of that validation, or its
\* Disregard lesson, is missing.
C12_PersistenceIsOneUnit ==
    \A v \in ValProcs :
       MidPersistence(v) =>
          LET d == vleads[v][vidx[v]].domain
          IN  (d \in companies /\ classification[d] = vlabel[v]) =>
                 /\ \A i \in DOMAIN vev[v].sources :
                       vev[v].sources[i] # "" =>
                          \E h \in has_evidence :
                              h.c = d /\ h.e.source_url = vev[v].sources[i]
                 /\ vlabel[v] = "Disregard" =>
                       \E l \in lessons : l.owner = OnCompany(d)

\* C13: the store never holds two Evidence nodes with the same source_url,
\* and no lead has two HAS_EVIDENCE edges for one source_url, whatever the
\* interleaving of the passes that upsert it.
C13_OneEvidencePerUrl ==
    /\ \A e1, e2 \in evidence : e1.source_url = e2.source_url => e1 = e2
    /\ \A h1, h2 \in has_evidence :
          (h1.c = h2.c /\ h1.e.source_url = h2.e.source_url) => h1 = h2

\* validate_single_lead of v returns in this step: its result joins results.
FinishesLead(v) == Len(vresults'[v]) = Len(vresults[v]) + 1

LeadOf(v) == vleads[v][vidx[v]].domain

AddedLessons == lessons' \ lessons

\* The details the claim gives the lesson of a lead: the mismatch details of
\* its fact-check if it has any, otherwise a generated sentence.
ClaimedDetails(ev) ==
    IF ev.mismatch_details.kind # "none" THEN ev.mismatch_details
    ELSE [kind |-> "classified_disregard", claimed |-> {}, actual |-> {}]

\* A lesson that is neither of the pass-level nor of the trigger kind is
\* added only by the validation of a lead labelled Disregard, when it returns.
LeadLessonsOnlyForDisregard ==
    \A l \in AddedLessons :
       l.type \notin { "SegmentPivot", "TriggerPivot" } =>
          \E v \in ValProcs :
             FinishesLead(v) /\ vlabel[v] = "Disregard" /\ l.owner = OnCompany(LeadOf(v))

C15_MismatchAlwaysRecorded ==
    [][\A v \in ValProcs :
          (FinishesLead(v) /\ vev[v].mismatch /\ LeadOf(v) \in companies) =>
             \E l \in AddedLessons :
                l.type = "TechStackMismatch" /\ l.owner = OnCompany(LeadOf(v))]_vars

(***************************************************************************)
(* The classifier                                                          *)
(***************************************************************************)

\* C16: for every provider text, the empty and the whitespace-only ones
\* included, classify_lead returns one of Strike, Monitor, Disregard and
\* raises nothing; a text in which no label occurs gives Monitor.
C16_AlwaysALabel ==
    cl_pc = "returned" =>
       /\ cl_out \in Labels
       /\ (\A l \in Labels : ~ IsSubstr(Lower(l), Lower(cl_raw))) => cl_out = "Monitor"

(***************************************************************************)
(* The classification of a lead                                            *)
(***************************************************************************)

\* The pass v runs _update_lead_classification in this step.
WritesClassification(v) ==
    vpc[v] = "update_classification" /\ vpc'[v] # "update_classification"

\* C17: a write of the classification of a lead in the store leaves the
\* lead with the label written, whatever it had before, and every other
\* lead as it was; writing the same label again would change nothing; and
\* the classifications change in no other way, but for a reset.
C17_ClassificationOverwrite ==
    [][/\ \A v \in ValProcs :
             (WritesClassification(v) /\ LeadOf(v) \in companies) =>
                /\ classification'[LeadOf(v)] = vlabel[v]
                /\ \A d \in Domains \ { LeadOf(v) } : classification'[d] = classification[d]
                /\ update_lead_classification(classification', LeadOf(v), vlabel[v])
                      = classification'
       /\ classification' # classification =>
             \/ \E v \in ValProcs : WritesClassification(v)
             \/ \A d \in Domains : classification'[d] = "unset"]_vars

\* A lead that an earlier validation disregarded now has another label,
\* and the other lead has kept one.
C17_Witness ==
    /\ \E l \in lessons : l.owner = OnCompany(1)
    /\ classification[1] = "Strike"
    /\ classification[2] = "Monitor"
    /\ vpc["v1"] = "evidence"

\* C18: a write of the classification of a domain that has no Company node
\* in the store ends the validation with an error and changes nothing.
C18_UnknownLeadFails ==
    [][\A v \in ValProcs :
          (WritesClassification(v) /\ LeadOf(v) \notin companies) =>
             /\ vpc'[v] = "failed"
             /\ UNCHANGED store_vars]_vars

(***************************************************************************)
(* The lessons                                                             *)
(***************************************************************************)

\* C19: but for a full reset, every step of every operation (validation
\* pass, strategy generation, trigger event, evidence upsert) leaves each
\* Lesson in the store as it is, with its type, details, timestamp and
\* owner, and no two lessons share a lesson_id: the lessons only grow.
C19_LessonsAppendOnly ==
    [][\/ /\ lessons \subseteq lessons'
          /\ \A l1, l2 \in lessons' : l1.lesson_id = l2.lesson_id => l1 = l2
       \/ /\ lessons' = {}
          /\ strategies' = {} /\ companies' = {} /\ evidence' = {}]_vars

\* A lead lesson and a trigger lesson are in the store, next to a strategy
\* made by a generation run and an Evidence node.
C19_Witness ==
    /\ \E l \in lessons : l.type = "TriggerPivot"
    /\ \E l \in lessons : l.owner.label = "Company"
    /\ \E s \in strategies : s.version = 2
    /\ evidence # {}

(***************************************************************************)
(* Undecodable provider output                                             *)
(***************************************************************************)

\* The provider texts that are not JSON once a fence around them is
\* stripped: empty, prose around the object, an empty fenced block, a
\* fenced block that breaks off.
Undecodable ==
    { "", "Sure! {\"icp\": \"x\"}", "~~~json\n~~~", "~~~json {\"icp\": " }

\* The SLM call of p returns in this step, with a text that cannot be decoded.
GetsUndecodable(p) ==
    /\ gpc[p] = "slm" /\ gpc'[p] # "slm"
    /\ graw'[p] # << >> /\ graw'[p][1] \in Undecodable

\* C20: a run whose provider text cannot be decoded fails; neither that
\* step nor any step of the run before it writes to the store, so the
\* maximum version stays; and the next run of the client that gets a draft
\* creates the version the failed run would have used.
C20_DecodeFailureLeavesNoTrace ==
    [][\A p \in GenProcs :
          /\ GetsUndecodable(p) =>
                /\ gpc'[p] = "failed"
                /\ UNCHANGED store_vars
                /\ get_latest_strategy_version' = get_latest_strategy_version
          /\ (gpc[p] \in { "idle", "get_version", "slm", "failed" } /\ gpc'[p] # gpc[p]) =>
                UNCHANGED store_vars
          /\ (gpc[p] = "store_create" /\ gpc'[p] = "store_targets" /\ glost[p] # 0) =>
                \E s \in strategies' \ strategies : s.version = glost[p] /\ s.by = p]_vars

\* After a run that could not decode a draft for version 2, the client has
\* a draft and is about to store it.
C20_Witness ==
    /\ gpc["g1"] = "store_create"
    /\ glost["g1"] = 2
    /\ get_latest_strategy_version = 1

\* The TriggerPivot lessons a step adds.
NewTriggerLessons == { l \in lessons' \ lessons : l.type = "TriggerPivot" }

\* C21: a provider failure inside a pipeline step commits nothing for that
\* step.  When the fact-check or the classification call of a lead fails,
\* the step leaves the whole store as it was (the lead's classification,
\* evidence links and lessons with it) and all the pass does afterwards is
\* end.  When a drafting call of a trigger event fails, the request fails
\* with the store as it was and ends without another write; a TriggerPivot
\* Lesson is only ever written by a request that has a draft for every one
\* of its affected leads.
C21_ProviderFailureCommitsNothing ==
    [][/\ \A v \in ValProcs :
            /\ (vpc[v] = "check" /\ vpc'[v] = "failed") => UNCHANGED store_vars
            /\ (vpc[v] = "failed" /\ vpc'[v] # "failed") =>
                   vpc'[v] = "idle" /\ UNCHANGED store_vars
       /\ (ppc = "draft" /\ ppc' = "failed") => UNCHANGED store_vars
       /\ (ppc = "failed" /\ ppc' # "failed") => ppc' = "idle" /\ UNCHANGED store_vars
       /\ NewTriggerLessons # {} =>
              ppc = "log" /\ pemails = Len(pleads) /\ pemails > 0]_vars

\* A pass failed at its second lead after it stored the first one's label,
\* and a trigger event failed at its second draft.
C21_Witness ==
    /\ vpc["v1"] = "failed" /\ vidx["v1"] = 2
    /\ classification[vleads["v1"][1].domain] # "unset"
    /\ classification[vleads["v1"][2].domain] = "unset"
    /\ ppc = "failed" /\ pemails = 1 /\ Len(pleads) = 2
    /\ \A l \in lessons : l.type # "TriggerPivot"

\* The leads the strategy of a pass targets, as the store has them.
TargetedBy(v) == UNION { TargetsOf(s) : s \in { x \in strategies : x.version = vver[v] } }

\* C22: a validation pass over a strategy that targets no lead ends in an
\* error result: it has no results and no counts, reports no pivot, writes
\* nothing to the store, and all it does afterwards is end.
C22_EmptyPassIsError ==
    [][\A v \in ValProcs :
          /\ (vpc[v] = "get_leads" /\ vpc'[v] # "get_leads" /\ TargetedBy(v) = {}) =>
                /\ vpc'[v] = "error"
                /\ vresults'[v] = << >> /\ ~vpivot'[v]
                /\ UNCHANGED store_vars
          /\ (vpc[v] = "error" /\ vpc'[v] # "error") =>
                vpc'[v] = "idle" /\ UNCHANGED store_vars]_vars

\* A pass ended in the error over a strategy without leads, in a store
\* that has a lead.
C22_Witness ==
    /\ vpc["v1"] = "error" /\ vver["v1"] # 0
    /\ TargetedBy("v1") = {} /\ companies # {}
    /\ classification = [d \in Domains |-> "unset"] /\ lessons = {} /\ evidence = {}

\* C23: the pivot evaluation at the end of a pass never aborts or fails the
\* pass: from the write of the SegmentPivot Lesson the pass goes on to
\* return its result, whether or not the write went through.
C23_PivotEvaluationNeverFailsPass ==
    [][\A v \in ValProcs :
          (vpc[v] = "pivot_lesson" /\ vpc'[v] # "pivot_lesson") =>
              vpc'[v] = "done" /\ vpivot'[v]]_vars

\* A request for strategy req (0: the latest one) finds none in the store.
NoStrategyFor(req) ==
    IF req = 0 THEN strategies = {} ELSE \A s \in strategies : s.version # req

\* C24: an operation that needs a strategy reports the not-found error and
\* has no side effect when it is absent.  A validation pass for a version
\* that is not in the store, or for the latest one of a store without
\* strategies, and a trigger event on a store without strategies, go to
\* the error result in a step that leaves the store alone, and from there
\* only end: no provider is called (the calls are made from "check" and
\* "draft") and nothing is written.
C24_NotFoundHasNoEffect ==
    [][/\ \A v \in ValProcs :
            /\ (vpc[v] = "idle" /\ vpc'[v] # "idle" /\ NoStrategyFor(vreq'[v])) =>
                   vpc'[v] = "error" /\ UNCHANGED store_vars
            /\ (vpc[v] = "error" /\ vpc'[v] # "error") =>
                   vpc'[v] = "idle" /\ UNCHANGED store_vars
       /\ (ppc = "idle" /\ ppc' # "idle" /\ strategies = {}) =>
              ppc' = "error" /\ UNCHANGED store_vars
       /\ (ppc = "error" /\ ppc' # "error") =>
              ppc' = "idle" /\ UNCHANGED store_vars]_vars

\* A pass asked for version 2 of a store that holds version 1 only, and a
\* trigger event came to a store without strategies, which since has one.
C24_Witness ==
    /\ vpc["v1"] = "error" /\ vreq["v1"] = 2
    /\ { s.version : s \in strategies } = { 1 }
    /\ ppc = "error"

\* The text entry has a stretch that reads as token when case is ignored.
ContainsIgnoringCase(entry, token) ==
    \/ token = ""
    \/ \E i \in 1..Len(entry) : \E j \in i..Len(entry) :
          Lower(SubSeq(entry, i, j)) = Lower(token)

\* The leads the current strategy targets, and those of them with a
\* tech_stack entry that contains the competitor token.
CurrentLeads ==
    UNION { TargetsOf(s) :
              s \in { x \in strategies : \A o \in strategies : o.version <= x.version } }

MatchingLeads(token) ==
    { d \in CurrentLeads :
        \E k \in DOMAIN CompanyProps(d).tech_stack :
            ContainsIgnoringCase(CompanyProps(d).tech_stack[k], token) }

\* C25: for a trigger event, the affected leads are exactly the leads of the
\* current strategy with a tech_stack entry containing the competitor
\* token, case ignored, each once; if there is none, they are all the
\* leads of the current strategy; so there is no affected lead only when
\* the current strategy targets none.
C25_AffectedLeadsOrAll ==
    [][(ppc = "get_affected" /\ ppc' # "get_affected") =>
          /\ Range(pleads') = IF MatchingLeads(pevent.competitor) # {}
                              THEN MatchingLeads(pevent.competitor)
                              ELSE CurrentLeads
          /\ Len(pleads') = Cardinality(Range(pleads'))
          /\ (pleads' = << >>) <=> (CurrentLeads = {})]_vars

\* Five targeted leads, none on the competitor's platform: five affected.
C25_Witness ==
    /\ ppc = "draft" /\ pevent.competitor = "DigitalOcean"
    /\ Cardinality(CurrentLeads) = 5 /\ MatchingLeads("DigitalOcean") = {}
    /\ Len(pleads) = 5

\* A narrowed set: of five targeted leads, the one whose stack names the
\* competitor in another case, inside a longer entry.
C25_NarrowedWitness ==
    /\ ppc = "draft" /\ pevent.competitor = "sql"
    /\ Cardinality(CurrentLeads) = 5
    /\ Range(pleads) = { 2 }

\* The step of a trigger event that runs _log_pivot_event.
LogsTrigger == ppc = "log" /\ ppc' = "done"

\* The step added one Lesson and nothing else: a TriggerPivot on the
\* strategy with the highest version, with the event's status and
\* competitor and the number of affected leads as its draft count.
AddsOneTriggerLesson ==
    \E l \in lessons' \ lessons :
        /\ lessons' = lessons \cup { l }
        /\ l.type = "TriggerPivot"
        /\ l.owner.label = "Strategy"
        /\ \A s \in strategies : s.version <= l.owner.key
        /\ \E s \in strategies : s.version = l.owner.key
        /\ l.details.status = pevent.status
        /\ l.details.competitor = pevent.competitor
        /\ l.details.drafted = Len(pleads)

\* What holds of a trigger event whatever the store does meanwhile: it
\* logs with a draft for every affected lead and at least one, returns
\* that many emails, writes no Lesson at any other step, and with no
\* affected lead returns right away with no email.
TriggerEventShape ==
    /\ LogsTrigger => pemails = Len(pleads) /\ pemails > 0 /\ UNCHANGED << pemails, pleads >>
    /\ ~LogsTrigger => NewTriggerLessons = {}
    /\ (ppc = "get_affected" /\ ppc' = "done") =>
           pleads' = << >> /\ pemails' = 0 /\ UNCHANGED lessons

\* C26 (as stated): a trigger event that completes with n > 0 affected
\* leads writes exactly one TriggerPivot Lesson, on the current strategy,
\* with the event and the draft count n, and returns n emails; one with no
\* affected lead writes none and returns no email.
C26_OneTriggerLessonPerEvent ==
    [][TriggerEventShape /\ (LogsTrigger => AddsOneTriggerLesson)]_vars

\* C26 (amended): the same, where the store holds a Strategy when
\* _log_pivot_event runs; where it holds none, no Lesson is written and
\* the event still returns its n emails.
C26_OneTriggerLessonIfStrategy ==
    [][/\ TriggerEventShape
       /\ (LogsTrigger /\ strategies # {}) => AddsOneTriggerLesson
       /\ (LogsTrigger /\ strategies = {}) => UNCHANGED lessons]_vars

\* An event over five affected leads has returned, its Lesson counting five
\* drafts.
C26_Witness ==
    /\ ppc = "done" /\ Len(pleads) = 5 /\ pemails = 5
    /\ \E l \in lessons :
          /\ l.type = "TriggerPivot" /\ l.details.drafted = 5
          /\ l.details.competitor = pevent.competitor
          /\ l.owner = [label |-> "Strategy", key |-> 1]

\* C27: a broadcast never fails its caller: no broadcast call ends with an
\* exception, whatever listeners connect, leave or disconnect while it is
\* awaiting a send.
C27_BroadcastNeverRaises == \A b \in BProcs : bpc[b] # "raised"

\* C28: each broadcast event is sent at most once to each listener, under
\* every interleaving of broadcast calls with connects and disconnects, and
\* a listener that a broadcast removed as stale is not listed again and is
\* sent no event of a call that began after its removal.
C28_AtMostOncePerListener ==
    /\ \A b \in BProcs : \A w \in Listeners :
          /\ sent[b][w] <= 1
          /\ w \in bbarred[b] => sent[b][w] = 0
    /\ \A w \in pruned : w \notin Range(active_connections)

\* A call that began after a listener had been removed as stale has
\* returned, having sent its event to the two others, one of which has
\* left since.
C28_Witness ==
    /\ bpc["b1"] = "returned"
    /\ bbarred["b1"] = { "w2" }
    /\ sent["b1"] = [w \in Listeners |-> IF w = "w2" THEN 0 ELSE 1]
    /\ lpc["w3"] = "ended"

\* The EVOLVED_FROM edges that leave a strategy.
EvolvedFrom(s) == { e \in evolved : e.curr = s }

\* C29: the strategy lineage is a single linear chain: every strategy of
\* version v > 1 has exactly one EVOLVED_FROM edge, to the strategy of
\* version v - 1; the one of version 1 has none; and no strategy is the
\* target of the edges of two strategies.
C29_LineageIsLinearChain ==
    /\ \A s \in strategies :
          /\ s.version > 1 =>
                /\ Cardinality(EvolvedFrom(s)) = 1
                /\ \A e \in EvolvedFrom(s) : e.prev.version = s.version - 1
          /\ s.version = 1 => EvolvedFrom(s) = {}
    /\ \A e1, e2 \in evolved : e1.prev = e2.prev => e1.curr = e2.curr

\* The strategies of the highest version in the store.
MaxVersionStrategies ==
    { s \in strategies : \A o \in strategies : o.version <= s.version }

\* C30: every operation that resolves the current strategy without a
\* version resolves to the same one, the strategy of the highest version in
\* the store at that instant, or none in a store without strategies: the
\* lookup of validation, pivot drafting, the affected-lead query and the
\* lesson attachments (ORDER BY s.version DESC LIMIT 1), GET /api/strategy,
\* and GET /api/leads, which returns the leads that strategy targets.
C30_OneCurrentStrategy ==
    /\ CurrentStrategies = MaxVersionStrategies
    /\ get_strategy = (IF strategies = {} THEN 0
                       ELSE CHOOSE v \in { s.version : s \in MaxVersionStrategies } : TRUE)
    /\ get_leads(0) = UNION { TargetsOf(s) : s \in MaxVersionStrategies }

\* A pass stops: an exception or a cancellation leaves run_validation_loop.
PassStops(v) == vpc[v] # "failed" /\ vpc'[v] = "failed"

LessonRow(l) == [type |-> l.type, details |-> l.details]

\* C32 as stated: once a Lesson is in the store (on a lead or on a
\* strategy), no run takes the compose branch while the lesson exists: every
\* call of the language model made with a Lesson in the store is a
\* refine_strategy call whose lesson list has a row for every stored Lesson.
C32_NoComposeWhileLessonExists ==
    [][ \A p \in GenProcs : (CallsSLM(p) /\ lessons # {}) =>
          /\ gcalled'[p] = { "refine_strategy" }
          /\ \A l \in lessons : \E i \in DOMAIN glessons[p] : glessons[p][i] = LessonRow(l) ]_vars

\* C32, amended: a Lesson stays in the store until a full reset; every run
\* that reads the lessons (line 128) while the Lesson is in the store gets a
\* list with a row for it, keeps that list until the branch, takes the refine
\* branch and passes the whole list in the prompt, never the compose branch.
C32_RunsReadingAfterLessonRefine ==
    [][ /\ (lessons \subseteq lessons') \/ (lessons' = {} /\ strategies' = {})
        /\ \A p \in GenProcs :
              /\ ReadsLessons(p) =>
                    \A l \in lessons : \E i \in DOMAIN glessons'[p] : glessons'[p][i] = LessonRow(l)
              /\ (gpc[p] \in { "get_version", "slm" }) => glessons'[p] = glessons[p]
              /\ (CallsSLM(p) /\ glessons[p] # << >>) =>
                    /\ gcalled'[p] = { "refine_strategy" }
                    /\ Len(gprompt'[p]) = Len(glessons[p])
                    /\ \A i \in DOMAIN glessons[p] :
                          /\ gprompt'[p][i][2] = glessons[p][i].type
                          /\ gprompt'[p][i][4] = glessons[p][i].details ]_vars

\* A run refined on a list that holds a lesson of a lead and the lesson of a
\* trigger event.
C32_Witness ==
    \E p \in GenProcs :
        /\ gpc[p] = "store_create"
        /\ gcalled[p] = { "refine_strategy" }
        /\ \E i \in DOMAIN glessons[p] : glessons[p][i].type = "TriggerPivot"
        /\ \E i \in DOMAIN glessons[p] : glessons[p][i].type \notin { "TriggerPivot", "SegmentPivot" }
        /\ \A l \in lessons : \E i \in DOMAIN glessons[p] : glessons[p][i] = LessonRow(l)

\* The domains of the leads a pass read at line 257, in the order of the rows.
LeadOrder(v) == [i \in DOMAIN vleads[v] |-> vleads[v][i].domain]

\* C33: the list of leads targeted by a strategy version is deterministic:
\* two passes that read the targeted leads of the same version while the
\* version targets the same leads get them in the same order (and so
\* validate them, and list the failing ones, in the same order).
C33_TargetedLeadsInOneOrder ==
    \A v, w \in ValProcs :
        ( /\ vver[v] = vver[w]
          /\ vleads[v] # << >> /\ vleads[w] # << >>
          /\ Range(LeadOrder(v)) = Range(LeadOrder(w)) )
        => LeadOrder(v) = LeadOrder(w)

\* The lesson type the rule of C34 gives a Disregard lead: employees is the
\* lead's employees value (<< >> if it has none), mismatch the fact-check's.
TypeByRule(employees, mismatch) ==
    IF mismatch THEN "TechStackMismatch"
    ELSE IF employees = << >> THEN "CompanyTooSmall"
    ELSE IF Len(employees) = 1 /\ employees[1] < 25 THEN "CompanyTooSmall"
    ELSE "Disregard"

\* C34: the Lesson a pass writes for a Disregard lead has type
\* TechStackMismatch if the fact-check reported a mismatch, otherwise
\* CompanyTooSmall if the lead's employees is an integer below 25 or absent,
\* otherwise Disregard; every Lesson a pass writes is such a lesson on its
\* current lead, or the pass-level lesson on a strategy, of type SegmentPivot.
C34_LessonTypeByRule ==
    [][ \A l \in lessons' \ lessons :
          \/ /\ l.owner.label = "Strategy"
             /\ l.type = "SegmentPivot"
             /\ \E v \in ValProcs : vpc[v] = "pivot_lesson"
          \/ /\ l.owner.label = "Company"
             /\ \E v \in ValProcs :
                   /\ vpc[v] = "lesson" /\ vlabel[v] = "Disregard"
                   /\ l.owner.key = LeadOf(v)
                   /\ l.type = TypeByRule(CompanyProps(LeadOf(v)).employees, vev[v].mismatch) ]_vars

\* One pass has written a lesson of each kind: a mismatch on the small lead,
\* the generic type for the large lead and for the one whose employees is
\* not an integer, CompanyTooSmall for the lead with no employees value.
C34_Witness ==
    /\ \E l \in lessons : l.owner = OnCompany(1) /\ l.type = "TechStackMismatch"
    /\ \E l \in lessons : l.owner = OnCompany(2) /\ l.type = "Disregard"
    /\ \E l \in lessons : l.owner = OnCompany(3) /\ l.type = "CompanyTooSmall"
    /\ \E l \in lessons : l.owner = OnCompany(4) /\ l.type = "Disregard"
    /\ \E l \in lessons : l.type = "SegmentPivot"

\* The request reads the leads of the strategy that is current at that
\* moment (the first two lines of the statement of _get_affected_leads).
ReadsAffected == ppc = "get_affected" /\ ppc' # "get_affected"

\* C35: in run_pivot_drafting the three uses of the current strategy agree:
\* the strategy whose TARGETS supply the affected leads and the strategy the
\* TriggerPivot Lesson is attached to are the strategy whose version the
\* result reports, also when a strategy is created during the drafting.
C35_OneStrategyInDrafting ==
    [][ /\ (ReadsAffected /\ strategies # {}) => get_latest_strategy_version = pver
        /\ LogsTrigger => \A l \in NewTriggerLessons : l.owner.key = pver ]_vars

\* A broadcast call leaves its send loop (and ends, with or without an
\* exception of its pruning).
LeavesSendLoop(b) == bpc[b] = "send" /\ bpc'[b] \in { "returned", "raised" }

\* C36: every listener that is registered for the whole duration of a
\* broadcast call (listed when the call began and still listed when its
\* loop ends) and whose websocket is open has been sent that event,
\* whatever other listeners disconnected or were removed while the call was
\* awaiting a send.
C36_HealthyListenerReceives ==
    [][ \A b \in BProcs : LeavesSendLoop(b) =>
          \A w \in blisted[b] :
              ( /\ w \in Range(active_connections) /\ w \in Range(active_connections')
                /\ sock'[w] = "open" )
              => sent'[b][w] = 1 ]_vars

\* C37: the label classify_lead returns is a function of the provider's raw
\* text alone: the value a call has returned for a text is the value every
\* call returns for that text, also when the first token is not a label and
\* the text holds more than one label.
C37_LabelIsFunctionOfText ==
    cl_pc = "returned" => \A out \in classify_lead(cl_raw, Labels) : out = cl_out

\* The url of the source a pass is upserting, and the step in which its
\* _store_evidence statement completes.
UpsertUrl(v) == vev[v].sources[vsrc[v]]

CompletesUpsert(v) ==
    /\ vpc[v] \in { "evidence", "evidence_create" }
    /\ vpc'[v] # vpc[v] \/ vsrc'[v] # vsrc[v]
    /\ ~ (vpc[v] = "evidence" /\ vpc'[v] = "evidence_create")

\* C38: an Evidence node keeps what its first upsert gave it: an upsert of a
\* source_url that has a node changes no Evidence node and creates none, and
\* only adds the HAS_EVIDENCE link of its lead to that url if it is missing;
\* upserting a (lead, url) pair that is linked already changes nothing.
C38_UpsertKeepsFirstNode ==
    [][ \A v \in ValProcs :
          ( /\ CompletesUpsert(v)
            /\ \E e \in evidence : e.source_url = UpsertUrl(v) )
          => /\ evidence' = evidence
             /\ has_evidence \subseteq has_evidence'
             /\ \A h \in has_evidence' \ has_evidence :
                   h.c = LeadOf(v) /\ h.e.source_url = UpsertUrl(v)
             /\ (\E h \in has_evidence : h.c = LeadOf(v) /\ h.e.source_url = UpsertUrl(v))
                   => has_evidence' = has_evidence ]_vars

\* The pass reads its leads (line 257) and has at least one.
ReadsLeads(v) == vpc[v] = "get_leads" /\ vpc'[v] = "check"

\* The counts of a result agree with its entries and with the leads the pass
\* read as targeted by its version.
CountsAgree(r, leads) ==
    /\ r.strike + r.monitor + r.disregard = r.total_leads
    /\ r.total_leads = Len(r.results)
    /\ r.total_leads = Len(leads)
    /\ r.total_leads >= 1
    /\ \A i \in DOMAIN leads : r.results[i].domain = leads[i].domain
    /\ Cardinality({ i \in DOMAIN r.results : r.results[i].classification = "Disregard" })
          = r.disregard
    /\ r.pivot_triggered <=> (Fl(r.disregard, r.total_leads) > FAILURE_THRESHOLD)

\* C39: in every non-error result of run_validation_loop, strike + monitor +
\* disregard = total_leads = the number of entries in results = the number
\* of leads targeted by the validated version (the list the pass read holds
\* each lead the version targets once), total_leads is at least 1, and the
\* number of results classified Disregard is the disregard count that
\* pivot_triggered was decided on.
C39_ResultCountsAgree ==
    [][ \A v \in ValProcs :
          /\ ReadsLeads(v) =>
                /\ Len(vleads'[v]) = Cardinality(TargetedBy(v))
                /\ { vleads'[v][i].domain : i \in DOMAIN vleads'[v] } = TargetedBy(v)
          /\ vpc'[v] = "done" => CountsAgree(validation_result(v), vleads[v])' ]_vars

\* A pass over two leads returned a result with one Strike and one Disregard
\* entry, and no pivot.
C39_Witness ==
    /\ vpc["v1"] = "done"
    /\ validation_result("v1").total_leads = 2
    /\ validation_result("v1").strike = 1
    /\ validation_result("v1").disregard = 1
    /\ ~ validation_result("v1").pivot_triggered

\* No request is being served.
NoOperationInFlight ==
    /\ \A p \in GenProcs : gpc[p] = "idle"
    /\ \A v \in ValProcs : vpc[v] = "idle"
    /\ ppc = "idle"

\* A run's statement that creates its Strategy node, and the one that links
\* it to the leads.
CreatesStrategy(p) == gpc[p] = "store_create" /\ gpc'[p] = "store_targets"

LinksTargets(p) == gpc[p] = "store_targets" /\ gpc'[p] # "store_targets"

\* C40: after a full reset with no operation in flight the store holds no
\* Strategy, Company, Evidence or Lesson; a run_strategy_generation that
\* starts then reads no lessons and version 0, takes the compose branch with
\* no previous version, creates the strategy with version 1, links it to no
\* lead and writes no EVOLVED_FROM edge: the version numbers start again.
C40_FreshStartAfterReset ==
    [][ /\ (NoOperationInFlight /\ strategies = {}) =>
              companies = {} /\ lessons = {} /\ evidence = {} /\ targets = {}
                 /\ evolved = {} /\ has_evidence = {}
        /\ \A p \in GenProcs :
              /\ (ReadsLessons(p) /\ NoOperationInFlight /\ strategies = {}) =>
                    glessons'[p] = << >>
              /\ (gpc[p] = "get_version" /\ gpc'[p] = "slm" /\ strategies = {}) =>
                    gprev'[p] = 0
              /\ (CallsSLM(p) /\ glessons[p] = << >> /\ gprev[p] = 0) =>
                    /\ gcalled'[p] = { "generate_strategy" }
                    /\ gevolved'[p] = << >>
              /\ (CreatesStrategy(p) /\ gprev[p] = 0) =>
                    /\ strategies' = strategies \cup { [version |-> 1, by |-> p] }
                    /\ targets' = targets /\ evolved' = evolved
              /\ (LinksTargets(p) /\ gevolved[p] = << >>) =>
                    /\ gpc'[p] = "done"
                    /\ evolved' = evolved
                    /\ companies = {} => targets' = targets ]_vars

\* After a reset of a store that had strategy 1 with a lead, a run has
\* composed and stored strategy 1 again, with no lead and no predecessor.
C40_Witness ==
    /\ gpc["g1"] = "done"
    /\ gprev["g1"] = 0
    /\ gcalled["g1"] = { "generate_strategy" }
    /\ strategies = { [version |-> 1, by |-> "g1"] }
    /\ companies = {} /\ targets = {} /\ evolved = {} /\ lessons = {}
    /\ vpc["v1"] = "idle" /\ ppc = "idle"

====
